---- MODULE Spec2Model ----
(***************************************************************************)
(* A model of the FIX wire layer of zerocode/fix_engine:                   *)
(*   - the message codec  (src/src/message.rs, FixMessage encode/decode),  *)
(*   - the frame reassembler and the duplex engine (src/src/engine.rs),    *)
(*     with the codec the engine calls (src/src/fix_message.rs),           *)
(*   - the engine of src/src/fix_engine.rs, whose shutdown keeps the       *)
(*     guard of the flag while it joins (FixEngineSpec).                   *)
(* Texts are sequences of byte values; maps are functions whose domain is  *)
(* a set of tags (byte sequences).  The iteration order of a HashMap is an *)
(* input of the operation that iterates it.                                *)
(***************************************************************************)
EXTENDS Integers, Sequences, FiniteSets, TLC

(* ------------------------------------------------------------------ *)
(* Bytes and literal strings of the source                             *)
(* ------------------------------------------------------------------ *)
SOH == 1
EQUALS == 61
ZERO == 48

T8   == <<56>>
T9   == <<57>>
T10  == <<49, 48>>
T34  == <<51, 52>>
T35  == <<51, 53>>
T49  == <<52, 57>>
T52  == <<53, 50>>
T56  == <<53, 54>>
T93  == <<57, 51>>
T98  == <<57, 56>>
T108 == <<49, 48, 56>>
T115 == <<49, 49, 53>>

FIX44  == <<70, 73, 88, 46, 52, 46, 52>>
FIX42  == <<70, 73, 88, 46, 52, 46, 50>>
\* "20231016-12:30:00.123", the value the tests' FixedClock returns
FIXED_NOW == <<50, 48, 50, 51, 49, 48, 49, 54, 45, 49, 50, 58, 51, 48, 58, 48, 48, 46, 49, 50, 51>>
\* "20240101-00:00:00.000", another value of Clock.now()
OTHER_NOW == <<50, 48, 50, 52, 48, 49, 48, 49, 45, 48, 48, 58, 48, 48, 58, 48, 48, 46, 48, 48, 48>>

\* the order written by encode's step 4
MANDATORY_ORDER == <<T8, T9, T35, T49, T56, T34, T52>>

ERR_NO_SOH   == "Message does not end with SOH"
ERR_KEY_VAL  == "Invalid key-value pair in FIX message"
ERR_CHECKSUM == "Invalid checksum"

(* ------------------------------------------------------------------ *)
(* Helpers: sequences, maps                                             *)
(* ------------------------------------------------------------------ *)
RECURSIVE SumBytes(_)
SumBytes(s) == IF s = <<>> THEN 0 ELSE Head(s) + SumBytes(Tail(s))

\* position of the first occurrence of byte b in s at or after position from; 0 if none
RECURSIVE FindByte(_, _, _)
FindByte(s, b, from) ==
    IF from > Len(s) THEN 0
    ELSE IF s[from] = b THEN from
    ELSE FindByte(s, b, from + 1)

EmptyMap == <<>>

Insert(m, k, v) == [x \in (DOMAIN m) \cup {k} |-> IF x = k THEN v ELSE m[x]]

\* all iteration orders of a key set (HashMap iteration order is unspecified)
Orders(S) ==
    {o \in [1..Cardinality(S) -> S] : \A i, j \in 1..Cardinality(S) : i # j => o[i] # o[j]}

\* format!("{}={}{}", tag, value, '\x01')
Field(tag, value) == tag \o <<EQUALS>> \o value \o <<SOH>>

\* the fields of map m written in the order given by the tag sequence order
RECURSIVE WriteFields(_, _)
WriteFields(m, order) ==
    IF order = <<>> THEN <<>>
    ELSE (IF Head(order) \in DOMAIN m THEN Field(Head(order), m[Head(order)]) ELSE <<>>)
         \o WriteFields(m, Tail(order))

\* usize::to_string
RECURSIVE to_string(_)
to_string(n) ==
    IF n < 10 THEN <<ZERO + n>>
    ELSE Append(to_string(n \div 10), ZERO + (n % 10))

\* format!("{:03}", n)
Pad3(n) ==
    LET d == to_string(n)
    IN IF Len(d) = 1 THEN <<ZERO, ZERO>> \o d
       ELSE IF Len(d) = 2 THEN <<ZERO>> \o d
       ELSE d

(* ------------------------------------------------------------------ *)
(* message.rs: the codec                                                *)
(* ------------------------------------------------------------------ *)
FixMessage_new == [header |-> EmptyMap, body |-> EmptyMap, trailer |-> EmptyMap]

\* what a call returns that does not return: the thread panics
Panicked == [ok |-> FALSE, err |-> "panic", msg |-> FixMessage_new]

\* in place of the checksum value when calculate_checksum panics; no text
OVERFLOW == <<-1>>

\* a checksum written without the zero padding
calculate_checksum_unpadded(fix_str, overflow_checks) == to_string(SumBytes(fix_str) % 256)

\* calculate_checksum (lines 156-159): the bytes are summed in a u32.  A sum
\* above u32::MAX = 65536 * 65536 - 1 panics in a build with overflow checks
\* and wraps in a build without, which leaves sum % 256 as it is
calculate_checksum(fix_str, overflow_checks) ==
    LET sum == SumBytes(fix_str)
    IN IF overflow_checks /\ sum \div 65536 >= 65536 THEN OVERFLOW
       ELSE Pad3(sum % 256)

\* step 2 of encode: the byte length of the header fields other than 9 and 8
RECURSIVE HeaderLenWithout89(_, _)
HeaderLenWithout89(header, tags) ==
    IF tags = {} THEN 0
    ELSE LET t == CHOOSE x \in tags : TRUE
         IN (IF t # T9 /\ t # T8 THEN Len(Field(t, header[t])) ELSE 0)
            + HeaderLenWithout89(header, tags \ {t})

body_length_value(header, fix_body) ==
    HeaderLenWithout89(header, DOMAIN header) + Len(fix_body)

\* a header text that starts with the body length
fix_header_length_first(header) ==
    WriteFields(header, <<T9, T8, T35, T49, T56, T34, T52>>)

\* step 4 of encode: the header text
fix_header(header) == WriteFields(header, MANDATORY_ORDER)

\* an encode that stamps the sending time on every call
encode_always_stamping(self, now, body_order, trailer_order, overflow_checks) ==
    LET h1 == IF T8 \in DOMAIN self.header THEN self.header
              ELSE Insert(self.header, T8, FIX44)
        h2 == Insert(h1, T52, now)
        fix_body == WriteFields(self.body, body_order)
        h3 == Insert(h2, T9, to_string(body_length_value(h2, fix_body)))
        message_without_checksum == fix_header(h3) \o fix_body
        checksum == calculate_checksum(message_without_checksum, overflow_checks)
        t1 == Insert(self.trailer, T10, checksum)
        fix_trailer == WriteFields(t1, trailer_order)
    IN IF checksum = OVERFLOW
       THEN [msg  |-> [header |-> h3, body |-> self.body, trailer |-> self.trailer],
             text |-> <<>>, panic |-> TRUE]
       ELSE [msg  |-> [header |-> h3, body |-> self.body, trailer |-> t1],
             text |-> fix_header(h3) \o fix_body \o fix_trailer, panic |-> FALSE]

\* FixMessage::encode: the message after the call, the text returned and
\* whether the call panics instead of returning (in calculate_checksum).
\* now is Clock.now(); body_order and trailer_order are the iteration orders
\* of the body map and of the trailer map (after the insertion of 10).
encode(self, now, body_order, trailer_order, overflow_checks) ==
    LET h1 == IF T8 \in DOMAIN self.header THEN self.header
              ELSE Insert(self.header, T8, FIX44)
        h2 == IF T52 \in DOMAIN h1 THEN h1 ELSE Insert(h1, T52, now)
        fix_body == WriteFields(self.body, body_order)
        h3 == Insert(h2, T9, to_string(body_length_value(h2, fix_body)))
        message_without_checksum == fix_header(h3) \o fix_body
        checksum == calculate_checksum(message_without_checksum, overflow_checks)
        t1 == Insert(self.trailer, T10, checksum)
        fix_trailer == WriteFields(t1, trailer_order)
    IN IF checksum = OVERFLOW
       THEN [msg  |-> [header |-> h3, body |-> self.body, trailer |-> self.trailer],
             text |-> <<>>, panic |-> TRUE]
       ELSE [msg  |-> [header |-> h3, body |-> self.body, trailer |-> t1],
             text |-> fix_header(h3) \o fix_body \o fix_trailer, panic |-> FALSE]

\* split('\x01').filter(|x| !x.is_empty()).collect()
RECURSIVE SplitNonEmpty(_, _)
SplitNonEmpty(s, sep) ==
    LET p == FindByte(s, sep, 1)
    IN IF p = 0 THEN (IF s = <<>> THEN <<>> ELSE <<s>>)
       ELSE (IF p = 1 THEN <<>> ELSE <<SubSeq(s, 1, p - 1)>>)
            \o SplitNonEmpty(SubSeq(s, p + 1, Len(s)), sep)

Ok(m)  == [ok |-> TRUE, err |-> "", msg |-> m]
Err(e) == [ok |-> FALSE, err |-> e, msg |-> FixMessage_new]

\* a match that keeps the value a tag already has
classify_keeping_first(message, tag, value) ==
    IF tag \in {T8, T35, T49, T56, T34, T52}
    THEN (IF tag \in DOMAIN message.header THEN message
          ELSE [message EXCEPT !.header = Insert(message.header, tag, value)])
    ELSE (IF tag \in DOMAIN message.body THEN message
          ELSE [message EXCEPT !.body = Insert(message.body, tag, value)])

\* the match of decode (lines 141-148): the six listed tags go to header,
\* every other tag (tag 9 included, since "continue" is commented out) to body
classify(message, tag, value) ==
    IF tag \in {T8, T35, T49, T56, T34, T52}
    THEN [message EXCEPT !.header = Insert(message.header, tag, value)]
    ELSE [message EXCEPT !.body = Insert(message.body, tag, value)]

\* lines 120-123 of decode
insert_body_length(message, tag, value) ==
    IF tag = T9 THEN [message EXCEPT !.header = Insert(message.header, tag, value)]
    ELSE message

\* lines 125-134 of decode: the checksum field ends the loop
check_checksum(message, value, checksum_input, overflow_checks) ==
    LET calculated_checksum == calculate_checksum(checksum_input, overflow_checks)
    IN IF calculated_checksum = OVERFLOW THEN Panicked
       ELSE IF value # calculated_checksum THEN Err(ERR_CHECKSUM)
       ELSE Ok([message EXCEPT !.trailer = Insert(message.trailer, T10, value)])

\* the loop of decode over the tokens
RECURSIVE decode_fields(_, _, _, _, _)
decode_fields(fields, i, message, checksum_input, overflow_checks) ==
    IF i > Len(fields) THEN Ok(message)
    ELSE LET part == fields[i]
             p == FindByte(part, EQUALS, 1)
         IN IF p = 0 THEN Err(ERR_KEY_VAL)
            ELSE LET tag == SubSeq(part, 1, p - 1)
                     value == SubSeq(part, p + 1, Len(part))
                     m1 == insert_body_length(message, tag, value)
                 IN IF tag = T10
                    THEN check_checksum(m1, value, checksum_input, overflow_checks)
                    ELSE decode_fields(fields, i + 1, classify(m1, tag, value),
                                       checksum_input \o part \o <<SOH>>, overflow_checks)

\* a decode that does not look at the end of the text
decode_without_end_check(fix_str, overflow_checks) ==
    decode_fields(SplitNonEmpty(fix_str, SOH), 1, FixMessage_new, <<>>, overflow_checks)

\* FixMessage::decode: what the call returns, or Panicked
decode(fix_str, overflow_checks) ==
    IF fix_str = <<>> \/ fix_str[Len(fix_str)] # SOH THEN Err(ERR_NO_SOH)
    ELSE decode_fields(SplitNonEmpty(SubSeq(fix_str, 1, Len(fix_str) - 1), SOH),
                       1, FixMessage_new, <<>>, overflow_checks)

(* ------------------------------------------------------------------ *)
(* message_optimised.rs: the array-backed encoder                       *)
(* ------------------------------------------------------------------ *)
\* a slot of the header, body or trailer array, Option<FixTag>; a FixTag is
\* modelled by what tag_id() and value() return for it
NoTag == [some |-> FALSE, tag_id |-> <<>>, value |-> <<>>]
SomeTag(id, v) == [some |-> TRUE, tag_id |-> id, value |-> v]

\* the while loop of int_to_str_no_alloc: the digits of num are stored from
\* the end of the buffer backwards, in front of the digits stored so far
RECURSIVE store_digits(_, _)
store_digits(num, stored) ==
    IF num > 0 THEN store_digits(num \div 10, <<ZERO + (num % 10)>> \o stored)
    ELSE stored

\* int_to_str_no_alloc: the used part of the buffer (the 16 bytes of the
\* buffer hold every number below 10^16)
int_to_str_no_alloc(n) ==
    IF n = 0 THEN <<ZERO>> ELSE store_digits(n, <<>>)

\* filter_map over header.iter().chain(body.iter()): the slots that hold a tag
RECURSIVE SomeSlots(_)
SomeSlots(slots) ==
    IF slots = <<>> THEN <<>>
    ELSE (IF Head(slots).some THEN <<Head(slots)>> ELSE <<>>) \o SomeSlots(Tail(slots))

\* calculate_body_length of message_optimised.rs
RECURSIVE SumFieldLengths(_)
SumFieldLengths(tags) ==
    IF tags = <<>> THEN 0
    ELSE (IF Head(tags).tag_id # T8 /\ Head(tags).tag_id # T9
          THEN Len(Head(tags).value) + Len(Head(tags).tag_id) + 2 ELSE 0)
         + SumFieldLengths(Tail(tags))

calculate_body_length(message) == SumFieldLengths(SomeSlots(message.header \o message.body))

\* calculate_checksum of message_optimised.rs, which returns a number
optimised_calculate_checksum(fix_str) == SumBytes(fix_str) % 256

\* the tags rendered one after the other as tag_id=value<SOH>
RECURSIVE Render(_)
Render(tags) ==
    IF tags = <<>> THEN <<>>
    ELSE Field(Head(tags).tag_id, Head(tags).value) \o Render(Tail(tags))

\* FixMessage2::encode: the message after the call and the text returned
FixMessage2_encode(self) ==
    LET body_length == calculate_body_length(self)
        body_length_str == int_to_str_no_alloc(body_length)
        header == [self.header EXCEPT ![2] = SomeTag(T9, body_length_str)]
        msg_str == Render(SomeSlots(header \o self.body))
        checksum == int_to_str_no_alloc(optimised_calculate_checksum(msg_str))
    IN [msg  |-> [header |-> header, body |-> self.body,
                  trailer |-> <<SomeTag(T10, checksum)>>],
        text |-> msg_str \o T10 \o <<EQUALS>> \o checksum \o <<SOH>>]

\* the values MsgType::value() returns
MsgTypeValues ==
    {<<48>>, <<49>>, <<50>>, <<51>>, <<52>>, <<53>>, <<56>>, <<57>>, <<65>>, <<66>>,
     <<99>>, <<68>>, <<100>>, <<101>>, <<102>>, <<70>>, <<71>>, <<72>>, <<81>>,
     <<82>>, <<86>>, <<87>>, <<88>>, <<89>>, <<65, 68>>, <<65, 69>>, <<65, 81>>}

\* the tags FixTag::tag_id() returns: 8, 35, 9, 49, 56, 50, 57, 116, 34, 142,
\* 43, 122, 52, 10 and 55
FixTagIds ==
    {T8, T35, T9, T49, T56, <<53, 48>>, <<53, 55>>, <<49, 49, 54>>, T34,
     <<49, 52, 50>>, <<52, 51>>, <<49, 50, 50>>, T52, T10, <<53, 53>>}

\* a field some FixTag holds: the enums BeginString, MsgType and PossDupFlag
\* have the values of their variants only
IsFixTag(tag, value) ==
    /\ tag \in FixTagIds
    /\ tag = T8 => value \in {FIX42, FIX44}
    /\ tag = T35 => value \in MsgTypeValues
    /\ tag = <<52, 51>> => value \in {<<89>>, <<78>>}

\* a slot for the entry of map m under tag, empty if there is none
Slot(m, tag) == IF tag \in DOMAIN m THEN SomeTag(tag, m[tag]) ELSE NoTag

RECURSIVE Slots(_, _)
Slots(m, order) ==
    IF order = <<>> THEN <<>> ELSE <<Slot(m, Head(order))>> \o Slots(m, Tail(order))

\* n empty slots
Empties(n) == [i \in 1..n |-> NoTag]

\* the length of the header array and of the body array of a FixMessage2
SLOTS == 10

\* the order in which header fields are laid into the header array: those of
\* create_test_message as it lays them (8, 35, 34, 52, 49, 56), then the
\* other tags a FixTag has; slot [1] is kept for 9, which encode overwrites
HEADER_SLOTS ==
    <<T8, T35, T34, T52, T49, T56, <<53, 48>>, <<53, 55>>, <<49, 49, 54>>,
      <<49, 52, 50>>, <<52, 51>>, <<49, 50, 50>>, T10, <<53, 53>>>>

\* the fields of a FixMessage can be held by a FixMessage2: each is the tag
\* and value of some FixTag, the header fields other than 9 fit beside slot
\* [1] and the body fields fit the body array
Representable(m) ==
    /\ \A tag \in DOMAIN m.header : IsFixTag(tag, m.header[tag])
    /\ \A tag \in DOMAIN m.body : IsFixTag(tag, m.body[tag])
    /\ Cardinality((DOMAIN m.header) \ {T9}) <= SLOTS - 1
    /\ Cardinality(DOMAIN m.body) <= SLOTS

\* the FixMessage2 that holds the header and body fields of the FixMessage m:
\* the first header field in slot [0], the field 9 (if any) in slot [1], the
\* other header fields in the slots that follow, the body in the order in
\* which the body map of m iterates
FixMessage2_of(m, body_order) ==
    LET InHeader(tag) == tag \in DOMAIN m.header
        held == SelectSeq(HEADER_SLOTS, InHeader)
        first == IF held = <<>> THEN <<>> ELSE <<Head(held)>>
        rest == IF held = <<>> THEN <<>> ELSE Tail(held)
    IN [header  |-> Slots(m.header, first) \o Empties(1 - Len(first))
                    \o <<Slot(m.header, T9)>>
                    \o Slots(m.header, rest) \o Empties(SLOTS - 2 - Len(rest)),
        body    |-> Slots(m.body, body_order) \o Empties(SLOTS - Len(body_order)),
        trailer |-> <<NoTag>>]

(* ------------------------------------------------------------------ *)
(* The messages and texts the codec is exercised on                     *)
(* ------------------------------------------------------------------ *)
MaxBody == 2
MaxPrefix == 4

Map1(k, v) == Insert(EmptyMap, k, v)

\* the header of the tests (message.rs test_fix_message_encode_decode)
HEADER_FULL ==
    Insert(Insert(Insert(Insert(Insert(Map1(T8, FIX44), T35, <<65>>), T49, <<83, 69, 78, 68, 69, 82>>),
           T56, <<84, 65, 82, 71, 69, 84>>), T34, <<49>>), T52, FIXED_NOW)

Headers ==
    { HEADER_FULL,
      Insert(HEADER_FULL, T115, <<88>>),                   \* an optional header field
      Insert(HEADER_FULL, T9, <<55>>),                     \* a stale body length
      Map1(T35, <<65>>),                                   \* 8 and 52 left to encode
      Insert(Insert(Map1(T35, <<65>>), T8, FIX42), T115, <<88>>),
      EmptyMap }

BODY_ALL ==
    Insert(Insert(Insert(Insert(EmptyMap, T98, <<48>>), T108, <<51, 48>>),
           T35, <<66>>), T10, <<48, 48, 48>>)

Restrict(m, S) == [x \in S |-> m[x]]

Bodies == {Restrict(BODY_ALL, S) : S \in {X \in SUBSET (DOMAIN BODY_ALL) : Cardinality(X) <= MaxBody}}

Trailers == {EmptyMap, Map1(T10, <<57, 57, 57>>), Map1(T93, <<53>>)}

\* a trailer of two entries: with the entry 10 of encode its table is full
TRAILER_TWO == Insert(Map1(T93, <<53>>), <<57, 52>>, <<54>>)

Messages ==
    [header : Headers, body : Bodies, trailer : Trailers]
    \cup [header : {EmptyMap, HEADER_FULL}, body : {EmptyMap}, trailer : {TRAILER_TWO}]

NowValues == {FIXED_NOW, OTHER_NOW}

\* texts handed to decode that no encode produced: a short prefix over a small
\* alphabet, then nothing or a checksum field whose value is near the byte sum
RECURSIVE SeqsUpTo(_, _)
SeqsUpTo(S, n) ==
    IF n = 0 THEN {<<>>}
    ELSE LET shorter == SeqsUpTo(S, n - 1)
         IN shorter \cup {Append(s, x) : s \in {t \in shorter : Len(t) = n - 1}, x \in S}

Prefixes == SeqsUpTo({SOH, EQUALS, 56, 65}, MaxPrefix)

\* a tail follows a prefix: nothing, or a checksum field whose value is near
\* the byte sum, followed by the delimiter, by nothing, or by the delimiter
\* and one more token without '='
Tails(p) ==
    {<<>>} \cup
    {T10 \o <<EQUALS>> \o Pad3((SumBytes(p) + 256 - d) % 256) \o e :
        d \in 0..2, e \in {<<SOH>>, <<>>, <<SOH, 65, SOH>>}}

\* texts in which a tag stands more than once: up to MaxFields fields, each
\* one of two values under the header tag 8, the body tag A or the tag 9
MaxFields == 3

RECURSIVE JoinFields(_)
JoinFields(fields) ==
    IF fields = <<>> THEN <<>>
    ELSE Head(fields) \o <<SOH>> \o JoinFields(Tail(fields))

RepeatedTagPrefixes ==
    LET RepeatedFields ==
            {tag \o <<EQUALS>> \o value : tag \in {T8, <<65>>, T9}, value \in {<<65>>, <<56>>}}
    IN {JoinFields(fields) : fields \in SeqsUpTo(RepeatedFields, MaxFields)}

RawTexts == UNION {{p \o t : t \in Tails(p)} : p \in Prefixes \cup RepeatedTagPrefixes}

(* ------------------------------------------------------------------ *)
(* The codec as a state machine                                         *)
(* ------------------------------------------------------------------ *)
\* the entries the table of a HashMap holds without growing, once n entries
\* were inserted into a map made by HashMap::new(): none, then 3 (4 buckets),
\* 7 (8 buckets), and 7/8 of the buckets as their number doubles (14, 28, 56,
\* 112, ...)
RECURSIVE capacity_for(_)
capacity_for(n) ==
    IF n = 0 THEN 0 ELSE IF n <= 3 THEN 3 ELSE IF n <= 7 THEN 7
    ELSE 2 * capacity_for((n + 1) \div 2)

VARIABLES
    pc,        \* "new", "encoded", "corrupted", "received", "decoded", "decoded_fix_message", "panicked"
    msg,       \* the FixMessage the application holds
    before,    \* msg as it was before the last encode
    sent,      \* the text the last encode returned (<<>>: none)
    text,      \* the text on the wire, which decode is given
    flipped,   \* the position of text a fault changed (0: none)
    result,    \* what the last decode returned
    body_iter,    \* the order in which msg.body iterates
    trailer_iter,     \* the order in which msg.trailer iterates once it holds 10
    trailer_capacity  \* how many entries the table of msg.trailer holds before it grows

codec_vars == <<pc, msg, before, sent, text, flipped, result, body_iter, trailer_iter,
               trailer_capacity>>

VARIABLES
    is_running,     \* the shared flag, Arc<Mutex<bool>>
    lock,           \* the mutex of the flag: "free", "main" (held by the caller of shutdown), "poisoned"
    rx_thread,      \* FixEngine.rx_thread: "None" or "Some"
    tx_thread,      \* FixEngine.tx_thread: "None" or "Some"
    rx_pc,          \* receive thread: "unspawned", "while", "read", "exited", "panicked"
    tx_pc,          \* send thread: "unspawned", "while", "recv", "write", "recheck", "exited", "panicked"
    sd_pc,          \* the caller of shutdown(): "idle", "take_tx", "join_tx", "take_rx", "join_rx", "returned", "panicked"
    shutdown_calls, \* how many times shutdown() was called
    buffer,         \* the accumulation buffer of the receive thread
    wire_in,        \* the bytes of the peer not yet read from the connection
    wire_out,       \* the bytes written to the connection
    outgoing,       \* the outgoing channel
    incoming,       \* the incoming channel (what was published)
    sink_open,      \* the consumer still holds the Receiver of the incoming channel
    placed_before,  \* messages put on the outgoing channel before shutdown() was called
    written,        \* messages the send thread has written in full, in order
    tx_message,     \* the message write_all is writing: <<>> or <<message>>
    tx_rest,        \* the bytes of its text write_all has still to write
    start_calls,    \* how many times start() was called
    rx2_pc,         \* receive thread of the last start after the first: "unspawned", "running", "exited"
    tx2_pc,         \* send thread of the last start after the first, likewise
    orphans,        \* running threads of later starts whose handles were overwritten
    plan            \* what the application and the peer do in this run

engine_vars == <<is_running, lock, rx_thread, tx_thread, rx_pc, tx_pc, sd_pc,
                 shutdown_calls, buffer, wire_in, wire_out, outgoing, incoming,
                 sink_open, placed_before, written, tx_message, tx_rest,
                 start_calls, rx2_pc, tx2_pc, orphans, plan>>

VARIABLES
    feed,       \* the buffer handed to extract_complete_message
    extracted   \* what the call returned ("called" is FALSE before it)

reasm_vars == <<feed, extracted>>

flag_vars   == <<is_running, lock>>
handle_vars == <<rx_thread, tx_thread>>
main_vars   == <<sd_pc, shutdown_calls>>
rx_vars     == <<rx_pc, buffer, wire_in, incoming>>
tx_vars     == <<tx_pc, wire_out, outgoing, written, tx_message, tx_rest>>
app_vars    == <<sink_open, placed_before, plan>>

NoResult == [ok |-> FALSE, err |-> "none", msg |-> FixMessage_new]

CodecInit ==
    /\ pc = "new"
    /\ msg \in Messages
    /\ before = msg
    /\ sent = <<>>
    /\ text = <<>>
    /\ flipped = 0
    /\ result = NoResult
    /\ body_iter \in Orders(DOMAIN msg.body)
    /\ trailer_iter \in Orders((DOMAIN msg.trailer) \cup {T10})
    /\ trailer_capacity = capacity_for(Cardinality(DOMAIN msg.trailer))

\* msg.encode(&clock); a map that is not changed iterates in the same order
\* every time.  trailer.insert("10", ..) of line 81 first makes room for one
\* more entry, also when the map holds 10: a table that is full grows, its
\* entries are placed anew and iterate in another order from then on.  An
\* encode that panics in calculate_checksum (line 79) never reaches line 81:
\* the table keeps its capacity and its order
Encode ==
    /\ pc \in {"new", "encoded"}
    /\ LET grows == Cardinality(DOMAIN msg.trailer) = trailer_capacity
       IN \E now \in NowValues,
             order \in IF grows THEN Orders((DOMAIN msg.trailer) \cup {T10}) ELSE {trailer_iter} :
            LET r == encode(msg, now, body_iter, order, plan.overflow_checks)
            IN /\ msg' = r.msg
               /\ sent' = r.text
               /\ text' = r.text
               /\ pc' = IF r.panic THEN "panicked" ELSE "encoded"
               /\ trailer_iter' = IF r.panic THEN trailer_iter ELSE order
               /\ trailer_capacity' = IF grows /\ ~r.panic THEN capacity_for(trailer_capacity + 1)
                                      ELSE trailer_capacity
    /\ before' = msg
    /\ flipped' = 0
    /\ result' = NoResult
    /\ UNCHANGED body_iter
    /\ UNCHANGED <<engine_vars, reasm_vars>>

\* one byte of the encoded text is changed on the way
Corrupt ==
    /\ pc = "encoded"
    /\ \E i \in 1..Len(text), b \in {SOH, EQUALS, 88} :
         /\ text[i] # b
         /\ text' = [text EXCEPT ![i] = b]
         /\ flipped' = i
    /\ pc' = "corrupted"
    /\ UNCHANGED <<msg, before, sent, result, body_iter, trailer_iter, trailer_capacity>>
    /\ UNCHANGED <<engine_vars, reasm_vars>>

\* a text arrives that was not produced by this encoder
Receive ==
    /\ pc = "new"
    /\ msg = FixMessage_new
    /\ text' \in RawTexts
    /\ pc' = "received"
    /\ UNCHANGED <<msg, before, sent, flipped, result, body_iter, trailer_iter, trailer_capacity>>
    /\ UNCHANGED <<engine_vars, reasm_vars>>

\* FixMessage::decode(&text)
Decode ==
    /\ pc \in {"encoded", "corrupted", "received"}
    /\ result' = decode(text, plan.overflow_checks)
    /\ pc' = "decoded"
    /\ UNCHANGED <<msg, before, sent, text, flipped, body_iter, trailer_iter, trailer_capacity>>
    /\ UNCHANGED <<engine_vars, reasm_vars>>

\* the codec at rest, while the engine is exercised
CodecIdle ==
    /\ pc = "new"
    /\ msg = FixMessage_new
    /\ before = FixMessage_new
    /\ sent = <<>>
    /\ text = <<>>
    /\ flipped = 0
    /\ result = NoResult
    /\ body_iter = <<>>
    /\ trailer_iter = <<T10>>
    /\ trailer_capacity = 0

(* ------------------------------------------------------------------ *)
(* engine.rs: the frame reassembler                                     *)
(* ------------------------------------------------------------------ *)
\* str::find(pat): the first position at which pat occurs in s at or after from; 0 if none
RECURSIVE FindSub(_, _, _)
FindSub(s, pat, from) ==
    IF from + Len(pat) - 1 > Len(s) THEN 0
    ELSE IF SubSeq(s, from, from + Len(pat) - 1) = pat THEN from
    ELSE FindSub(s, pat, from + 1)

\* the replacement character U+FFFD in UTF-8
REPLACEMENT == <<239, 191, 189>>

\* a continuation byte of UTF-8
IsCont(b) == b \in 128..191

\* the first character of a non-empty byte sequence, as the UTF-8 validation
\* of the standard library scans it: whether it is valid, and the number of
\* bytes of the character, or of the invalid sequence that is replaced as one
ScanChar(v) ==
    LET at(i) == IF i <= Len(v) THEN v[i] ELSE 0
        b == v[1]
        second3 == \/ (b = 224 /\ at(2) \in 160..191)
                   \/ (b \in 225..236 /\ IsCont(at(2)))
                   \/ (b = 237 /\ at(2) \in 128..159)
                   \/ (b \in 238..239 /\ IsCont(at(2)))
        second4 == \/ (b = 240 /\ at(2) \in 144..191)
                   \/ (b \in 241..243 /\ IsCont(at(2)))
                   \/ (b = 244 /\ at(2) \in 128..143)
    IN IF b < 128 THEN [valid |-> TRUE, len |-> 1]
       ELSE IF b \in 194..223
       THEN (IF IsCont(at(2)) THEN [valid |-> TRUE, len |-> 2] ELSE [valid |-> FALSE, len |-> 1])
       ELSE IF b \in 224..239
       THEN (IF ~second3 THEN [valid |-> FALSE, len |-> 1]
             ELSE IF ~IsCont(at(3)) THEN [valid |-> FALSE, len |-> 2]
             ELSE [valid |-> TRUE, len |-> 3])
       ELSE IF b \in 240..244
       THEN (IF ~second4 THEN [valid |-> FALSE, len |-> 1]
             ELSE IF ~IsCont(at(3)) THEN [valid |-> FALSE, len |-> 2]
             ELSE IF ~IsCont(at(4)) THEN [valid |-> FALSE, len |-> 3]
             ELSE [valid |-> TRUE, len |-> 4])
       ELSE [valid |-> FALSE, len |-> 1]

\* String::from_utf8_lossy(v).to_string(): the bytes of the string, in which
\* every invalid sequence of v is replaced by U+FFFD
RECURSIVE from_utf8_lossy(_)
from_utf8_lossy(v) ==
    IF \A i \in 1..Len(v) : v[i] < 128 THEN v
    ELSE LET c == ScanChar(v)
         IN (IF c.valid THEN SubSeq(v, 1, c.len) ELSE REPLACEMENT)
            \o from_utf8_lossy(SubSeq(v, c.len + 1, Len(v)))

None == [some |-> FALSE, message |-> <<>>, remaining |-> <<>>, panic |-> FALSE]
Some(m, r) == [some |-> TRUE, message |-> m, remaining |-> r, panic |-> FALSE]

\* buffer[start..] with start past the end of the buffer: the slice panics
SliceOutOfRange == [some |-> FALSE, message |-> <<>>, remaining |-> <<>>, panic |-> TRUE]

\* extract_complete_message(&buffer), buf its argument: the marker and the
\* delimiter are looked for in the string made of the buffer, the message is
\* cut from that string, and the remainder is cut from the buffer at the
\* position found in the string (end_pos here counts the bytes of the string
\* through the delimiter)
extract_complete_message(buf) ==
    LET message_str == from_utf8_lossy(buf)
        checksum_pos == FindSub(message_str, T10 \o <<EQUALS>>, 1)
    IN IF checksum_pos = 0 THEN None
       ELSE LET end_pos == FindByte(message_str, SOH, checksum_pos)
            IN IF end_pos = 0 THEN None
               ELSE IF end_pos > Len(buf) THEN SliceOutOfRange
               ELSE Some(SubSeq(message_str, 1, end_pos),
                         SubSeq(buf, end_pos + 1, Len(buf)))

\* ---- the reassembler on its own: buffers fed to it ----
MaxBuf == 5

\* messages whose encoded texts are fed back to back; the last carries the
\* body field 110 (MinQty), whose text holds the bytes "10="
FrameMessages ==
    { [header |-> Insert(Map1(T35, <<65>>), T52, FIXED_NOW), body |-> EmptyMap, trailer |-> EmptyMap],
      [header |-> Insert(Map1(T35, <<56>>), T52, FIXED_NOW), body |-> EmptyMap, trailer |-> EmptyMap],
      [header |-> Insert(Map1(T35, <<68>>), T52, FIXED_NOW), body |-> Map1(<<49, 49, 48>>, <<53>>),
       trailer |-> EmptyMap] }

\* the texts encode returns for them
EncodedFrames ==
    UNION { { encode(m, FIXED_NOW, o, <<T10>>, TRUE).text : o \in Orders(DOMAIN m.body) } :
            m \in FrameMessages }

\* the buffers handed to the reassembler: every prefix of two encoded frames
\* back to back; short buffers over the bytes of the marker, the delimiter
\* and one other byte; and buffers that hold bytes outside ASCII before a
\* checksum field: the byte 0xFF, which no UTF-8 text holds, the first two
\* bytes of a three-byte character, and the two bytes of the character U+00E9
Buffers ==
    (UNION {{SubSeq(a \o b, 1, n) : n \in 0..Len(a \o b)} : a, b \in EncodedFrames})
    \cup SeqsUpTo({49, ZERO, EQUALS, SOH, 65}, MaxBuf)
    \cup {lead \o T10 \o <<EQUALS, ZERO, SOH>> \o rest :
            lead \in {<<255>>, <<226, 130>>, <<195, 169>>},
            rest \in {<<>>, <<65>>, <<65, 65>>, <<65, 65, 65>>}}

NotCalled == [called |-> FALSE, some |-> FALSE, message |-> <<>>, remaining |-> <<>>,
              panic |-> FALSE]

Returned(r) == [called |-> TRUE, some |-> r.some, message |-> r.message, remaining |-> r.remaining,
                panic |-> r.panic]

\* no call of the reassembler outside the engine
ReasmIdle == feed = <<>> /\ extracted = NotCalled

\* extract_complete_message(&feed)
Extract ==
    /\ ~extracted.called
    /\ extracted' = Returned(extract_complete_message(feed))
    /\ UNCHANGED <<feed, codec_vars, engine_vars>>

\* buffer = remaining (line 60): the remainder is what the next call is given
FeedRemainder ==
    /\ extracted.called /\ extracted.some
    /\ feed' = extracted.remaining
    /\ extracted' = NotCalled
    /\ UNCHANGED <<codec_vars, engine_vars>>

(* ------------------------------------------------------------------ *)
(* fix_message.rs: the codec the engine uses (engine.rs line 1)         *)
(* ------------------------------------------------------------------ *)
ERR_FORMAT  == "Invalid FIX message format"
ERR_MISSING == "Checksum missing"

\* line 78: self.header.iter().map(|(k, v)| k.len() + v.len() + 2).sum(),
\* over every entry of the header, 8 and an entry 9 it holds included
RECURSIVE HeaderLen(_, _)
HeaderLen(header, tags) ==
    IF tags = {} THEN 0
    ELSE LET t == CHOOSE x \in tags : TRUE
         IN Len(t) + Len(header[t]) + 2 + HeaderLen(header, tags \ {t})

\* the tags of a header that are none of the seven required ones
OtherTags(header) ==
    {t \in DOMAIN header : \A i \in 1..Len(MANDATORY_ORDER) : MANDATORY_ORDER[i] # t}

\* FixMessage::encode of fix_message.rs: the message after the call and the
\* text returned.  header_order, body_order and trailer_order are the orders
\* in which the three maps iterate (the trailer after the insertion of 10; of
\* the header the entries that are none of the seven required ones).
fix_message_encode(self, header_order, body_order, trailer_order, overflow_checks) ==
    LET h1 == IF T8 \in DOMAIN self.header THEN self.header
              ELSE Insert(self.header, T8, FIX44)
        h2 == IF T52 \in DOMAIN h1 THEN h1 ELSE Insert(h1, T52, self.clock)
        fix_body == WriteFields(self.body, body_order)
        body_length == Len(fix_body) + HeaderLen(h2, DOMAIN h2) + 3
        h3 == Insert(h2, T9, to_string(body_length))
        header_text == WriteFields(h3, MANDATORY_ORDER) \o WriteFields(h3, header_order)
        message_without_checksum == header_text \o fix_body
        checksum == calculate_checksum(message_without_checksum, overflow_checks)
        t1 == Insert(self.trailer, T10, checksum)
        fix_trailer == WriteFields(t1, trailer_order)
    IN IF checksum = OVERFLOW
       THEN [msg |-> [self EXCEPT !.header = h3], text |-> <<>>, panic |-> TRUE]
       ELSE [msg  |-> [self EXCEPT !.header = h3, !.trailer = t1],
             text |-> header_text \o fix_body \o fix_trailer, panic |-> FALSE]

\* tag_value.split('='): the first part, and the second part if there is one
FirstPart(tag_value) ==
    LET p == FindByte(tag_value, EQUALS, 1)
    IN IF p = 0 THEN tag_value ELSE SubSeq(tag_value, 1, p - 1)

SecondPart(tag_value) ==
    LET p == FindByte(tag_value, EQUALS, 1)
        rest == SubSeq(tag_value, p + 1, Len(tag_value))
        q == FindByte(rest, EQUALS, 1)
    IN IF q = 0 THEN rest ELSE SubSeq(rest, 1, q - 1)

\* lines 126-137: where a field is filed
file_field(message, trailer_started, tag, value) ==
    IF trailer_started THEN [message EXCEPT !.trailer = Insert(message.trailer, tag, value)]
    ELSE IF tag \in {T8, T9, T35, T49, T56, T34, T52}
    THEN [message EXCEPT !.header = Insert(message.header, tag, value)]
    ELSE [message EXCEPT !.body = Insert(message.body, tag, value)]

\* the loop of lines 120-138; a token without '=' returns the error at once
RECURSIVE file_fields(_, _, _, _)
file_fields(tags, i, message, trailer_started) ==
    IF i > Len(tags) THEN Ok(message)
    ELSE IF FindByte(tags[i], EQUALS, 1) = 0 THEN Err(ERR_FORMAT)
    ELSE LET tag == FirstPart(tags[i])
             started == trailer_started \/ tag = T10
         IN file_fields(tags, i + 1,
                        file_field(message, started, tag, SecondPart(tags[i])), started)

\* fix_str.chars().take(n): the bytes of the first n characters of a string
RECURSIVE TakeChars(_, _)
TakeChars(s, n) ==
    IF n <= 0 \/ s = <<>> THEN <<>>
    ELSE IF \A i \in 1..Len(s) : s[i] < 128
    THEN SubSeq(s, 1, IF n < Len(s) THEN n ELSE Len(s))
    ELSE LET c == ScanChar(s)
         IN SubSeq(s, 1, c.len) \o TakeChars(SubSeq(s, c.len + 1, Len(s)), n - 1)

\* FixMessage::decode of fix_message.rs; a clock is modelled by the value its
\* now() returns.  The count of line 142 is a number
\* of bytes, and take() counts characters; when the text is shorter than the
\* checksum value and four bytes, the subtraction underflows: it panics in a
\* build with overflow checks and wraps to a count larger than the text in
\* a build without; the byte sum of calculate_checksum (line 29) panics or
\* wraps as that of message.rs does
fix_message_decode(fix_str, clock, overflow_checks) ==
    LET new == [header |-> EmptyMap, body |-> EmptyMap, trailer |-> EmptyMap, clock |-> clock]
        filed == file_fields(SplitNonEmpty(fix_str, SOH), 1, new, FALSE)
    IN IF ~filed.ok THEN filed
       ELSE IF T10 \notin DOMAIN filed.msg.trailer THEN Err(ERR_MISSING)
       ELSE LET received_checksum == filed.msg.trailer[T10]
                n == Len(fix_str) - Len(received_checksum) - 4
                checksum_input == TakeChars(fix_str, IF n < 0 THEN Len(fix_str) ELSE n)
                calculated_checksum == calculate_checksum(checksum_input, overflow_checks)
            IN IF n < 0 /\ overflow_checks THEN Panicked
               ELSE IF calculated_checksum = OVERFLOW THEN Panicked
               ELSE IF received_checksum # calculated_checksum THEN Err(ERR_CHECKSUM)
               ELSE filed

(* ------------------------------------------------------------------ *)
(* engine.rs: the duplex engine                                         *)
(* ------------------------------------------------------------------ *)
MaxSend == 2
MaxShutdownCalls == 2
MaxStartCalls == 3
TMP_BUF == 512

\* frames the peer puts on the connection
MakeFrame(prefix) == prefix \o Field(T10, Pad3(SumBytes(prefix) % 256))
FRAME_A   == MakeFrame(Field(T35, <<65>>))
FRAME_B   == MakeFrame(Field(T35, <<56>>))
FRAME_BAD == Field(T35, <<65>>) \o Field(T10, <<ZERO, ZERO, ZERO>>)
\* bytes that are no FIX text: a byte that is not valid UTF-8, a checksum
\* field without value, two more bytes
NOISE == <<255>> \o T10 \o <<EQUALS, SOH, 65, 65>>
\* what the peer sends in all: nothing, one frame, two frames back to back,
\* a frame that fails to decode before a good one, noise
Streams == {<<>>, FRAME_A, FRAME_A \o FRAME_B, FRAME_BAD \o FRAME_A, NOISE}

INITIATOR == <<73, 78, 73, 84, 73, 65, 84, 79, 82>>
ACCEPTOR  == <<65, 67, 67, 69, 80, 84, 79, 82>>

\* messages the application sends (tests/integration_tests.rs)
LOGON_OUT ==
    [header |-> [HEADER_FULL EXCEPT ![T49] = INITIATOR, ![T56] = ACCEPTOR],
     body |-> EmptyMap, trailer |-> EmptyMap, clock |-> FIXED_NOW]
REPORT_OUT ==
    [header |-> [HEADER_FULL EXCEPT ![T35] = <<56>>, ![T49] = ACCEPTOR, ![T56] = INITIATOR,
                                    ![T34] = <<50>>],
     body |-> EmptyMap, trailer |-> EmptyMap, clock |-> FIXED_NOW]
OutMessages == {LOGON_OUT, REPORT_OUT}

\* what now() of the clock of the engine returns (engine_factory.rs gives the
\* engine a RealClock); decode hands the clock to the messages it builds
ENGINE_CLOCK == OTHER_NOW

\* the byte counts at which a write returns short of the whole: one byte
\* before the end of a text of OutMessages, and half way through it
ShortWrites ==
    LET logon == fix_message_encode(LOGON_OUT, <<>>, <<>>, <<T10>>, TRUE).text
    IN {Len(logon) - 1, Len(logon) \div 2}

\* what the application and the peer do in a run, and the build that runs:
\* the bytes the peer sends on the connection of the first start, how many
\* times the application calls start, how many messages it sends, at which
\* byte counts the connection stops taking bytes in a write, and whether the
\* build checks arithmetic overflow.  Every later start is given a
\* connection on which the peer sends nothing and channels on which the
\* application sends nothing.
Scenarios ==
    [stream : Streams, starts : {1}, sends : {1},
     short_writes : {ShortWrites}, overflow_checks : {TRUE}]
    \cup [stream : {<<>>, FRAME_A}, starts : {1}, sends : {MaxSend},
          short_writes : {ShortWrites}, overflow_checks : {TRUE}]
    \cup [stream : {FRAME_A}, starts : {MaxStartCalls}, sends : {0},
          short_writes : {ShortWrites}, overflow_checks : {FALSE}]

\* FixEngine::new
FixEngine_new ==
    /\ is_running = TRUE
    /\ lock = "free"
    /\ rx_thread = "None"
    /\ tx_thread = "None"
    /\ rx_pc = "unspawned"
    /\ tx_pc = "unspawned"
    /\ sd_pc = "idle"
    /\ shutdown_calls = 0
    /\ buffer = <<>>
    /\ wire_out = <<>>
    /\ outgoing = <<>>
    /\ incoming = <<>>
    /\ sink_open = TRUE
    /\ placed_before = 0
    /\ written = <<>>
    /\ tx_message = <<>>
    /\ tx_rest = <<>>
    /\ start_calls = 0
    /\ rx2_pc = "unspawned"
    /\ tx2_pc = "unspawned"
    /\ orphans = 0

\* a mutex that a panic of either thread poisons for the other
flag_readable_unless_poisoned == lock = "free" /\ rx_pc # "panicked" /\ tx_pc # "panicked"

\* *is_running.lock().unwrap(): the guard is a temporary, so the read is one step
\* that needs the mutex free; no thread panics while it holds the guard, so
\* no thread poisons the mutex
CanReadFlag == lock = "free"

\* 1 for a thread of a later start that runs, 0 otherwise
Running(thread_pc) == IF thread_pc = "running" THEN 1 ELSE 0

\* a start that sets the flag again
start_setting_flag ==
    /\ sd_pc \in {"idle", "returned"}
    /\ start_calls < plan.starts
    /\ start_calls' = start_calls + 1
    /\ rx_thread' = "Some" /\ tx_thread' = "Some"
    /\ is_running' = TRUE
    /\ IF start_calls = 0
       THEN /\ rx_pc' = "while" /\ tx_pc' = "while"
            /\ UNCHANGED <<rx2_pc, tx2_pc, orphans>>
       ELSE /\ rx2_pc' = "running" /\ tx2_pc' = "running"
            /\ orphans' = orphans + Running(rx2_pc) + Running(tx2_pc)
            /\ UNCHANGED <<rx_pc, tx_pc>>
    /\ UNCHANGED <<codec_vars, reasm_vars, lock, main_vars, buffer, wire_in, incoming,
                   wire_out, outgoing, written, tx_message, tx_rest, app_vars>>

\* FixEngine::start: two threads are spawned and their handles stored over
\* the handles the engine holds; nothing in start looks at the state of the
\* engine.  The caller is not inside shutdown(), which borrows the engine
\* mutably.  The threads of the first call work on the connection and the
\* channels of the model; the threads of a later call are given a silent
\* connection and channels of their own, so all they do is run until they
\* see the flag unset; the threads whose handles a call overwrites run on.
start ==
    /\ sd_pc \in {"idle", "returned"}
    /\ start_calls < plan.starts
    /\ start_calls' = start_calls + 1
    /\ rx_thread' = "Some" /\ tx_thread' = "Some"
    /\ IF start_calls = 0
       THEN /\ rx_pc' = "while" /\ tx_pc' = "while"
            /\ UNCHANGED <<rx2_pc, tx2_pc, orphans>>
       ELSE /\ rx2_pc' = "running" /\ tx2_pc' = "running"
            /\ orphans' = orphans + Running(rx2_pc) + Running(tx2_pc)
            /\ UNCHANGED <<rx_pc, tx_pc>>
    /\ UNCHANGED <<codec_vars, reasm_vars, flag_vars, main_vars, buffer, wire_in, incoming,
                   wire_out, outgoing, written, tx_message, tx_rest, app_vars>>

(* ---- the receive thread (lines 40-76) ---- *)
\* while *is_running_rx.lock().unwrap()
RxWhile ==
    /\ rx_pc = "while"
    /\ CanReadFlag
    /\ rx_pc' = IF is_running THEN "read" ELSE "exited"
    /\ UNCHANGED <<codec_vars, reasm_vars, flag_vars, handle_vars, main_vars, start_calls, rx2_pc, tx2_pc, orphans,
                   buffer, wire_in, incoming, tx_vars, app_vars>>

\* an Ok(size) arm that empties the buffer when no message is complete
on_chunk_clearing(buf, chunk, open, overflow_checks) ==
    LET grown == buf \o chunk
        found == extract_complete_message(grown)
        decoded == fix_message_decode(found.message, ENGINE_CLOCK, overflow_checks)
    IN IF found.panic THEN [buffer |-> grown, publish |-> <<>>, panic |-> TRUE]
       ELSE IF ~found.some THEN [buffer |-> <<>>, publish |-> <<>>, panic |-> FALSE]
       ELSE IF decoded = Panicked THEN [buffer |-> grown, publish |-> <<>>, panic |-> TRUE]
       ELSE IF ~decoded.ok THEN [buffer |-> found.remaining, publish |-> <<>>, panic |-> FALSE]
       ELSE IF ~open THEN [buffer |-> grown, publish |-> <<>>, panic |-> TRUE]
       ELSE [buffer |-> found.remaining, publish |-> <<decoded.msg>>, panic |-> FALSE]

\* what the Ok(size) arm does with a chunk of size > 0: the buffer, what is
\* published and whether the thread panics (in the slice of
\* extract_complete_message, in decode or in send().unwrap())
on_chunk(buf, chunk, open, overflow_checks) ==
    LET grown == buf \o chunk
        found == extract_complete_message(grown)
        decoded == fix_message_decode(found.message, ENGINE_CLOCK, overflow_checks)
    IN IF found.panic THEN [buffer |-> grown, publish |-> <<>>, panic |-> TRUE]
       ELSE IF ~found.some THEN [buffer |-> grown, publish |-> <<>>, panic |-> FALSE]
       ELSE IF decoded = Panicked THEN [buffer |-> grown, publish |-> <<>>, panic |-> TRUE]
       ELSE IF ~decoded.ok THEN [buffer |-> found.remaining, publish |-> <<>>, panic |-> FALSE]
       ELSE IF ~open THEN [buffer |-> grown, publish |-> <<>>, panic |-> TRUE]
       ELSE [buffer |-> found.remaining, publish |-> <<decoded.msg>>, panic |-> FALSE]


\* a channel that hands out the newest message first
send_to_front(channel, messages) == messages \o channel

\* Sender::send: the channel is a queue
send(channel, messages) == channel \o messages

\* read returns Ok(size), size > 0
RxReadData ==
    /\ rx_pc = "read"
    /\ wire_in # <<>>
    /\ \E size \in 1..(IF Len(wire_in) < TMP_BUF THEN Len(wire_in) ELSE TMP_BUF) :
         LET r == on_chunk(buffer, SubSeq(wire_in, 1, size), sink_open, plan.overflow_checks)
         IN /\ wire_in' = SubSeq(wire_in, size + 1, Len(wire_in))
            /\ buffer' = r.buffer
            /\ incoming' = send(incoming, r.publish)
            /\ rx_pc' = IF r.panic THEN "panicked" ELSE "while"
    /\ UNCHANGED <<codec_vars, reasm_vars, flag_vars, handle_vars, main_vars, start_calls, rx2_pc, tx2_pc, orphans,
                   tx_vars, app_vars>>

\* read returns Ok(0): the peer has closed its side
RxReadZero ==
    /\ rx_pc = "read"
    /\ wire_in = <<>>
    /\ rx_pc' = "while"
    /\ UNCHANGED <<codec_vars, reasm_vars, flag_vars, handle_vars, main_vars, start_calls, rx2_pc, tx2_pc, orphans,
                   buffer, wire_in, incoming, tx_vars, app_vars>>

\* read returns Err(WouldBlock | TimedOut) after the 1 second timeout
RxReadTimeout ==
    /\ rx_pc = "read"
    /\ CanReadFlag
    /\ rx_pc' = IF ~is_running THEN "exited" ELSE "while"
    /\ UNCHANGED <<codec_vars, reasm_vars, flag_vars, handle_vars, main_vars, start_calls, rx2_pc, tx2_pc, orphans,
                   buffer, wire_in, incoming, tx_vars, app_vars>>

\* read returns any other Err: break
RxReadError ==
    /\ rx_pc = "read"
    /\ rx_pc' = "exited"
    /\ UNCHANGED <<codec_vars, reasm_vars, flag_vars, handle_vars, main_vars, start_calls, rx2_pc, tx2_pc, orphans,
                   buffer, wire_in, incoming, tx_vars, app_vars>>

(* ---- the send thread (lines 80-97) ---- *)
\* while *is_running_tx.lock().unwrap()
TxWhile ==
    /\ tx_pc = "while"
    /\ CanReadFlag
    /\ tx_pc' = IF is_running THEN "recv" ELSE "exited"
    /\ UNCHANGED <<codec_vars, reasm_vars, flag_vars, handle_vars, main_vars, start_calls, rx2_pc, tx2_pc, orphans,
                   rx_vars, wire_out, outgoing, written, tx_message, tx_rest, app_vars>>

\* a channel that hands out the message placed last
recv_newest(channel) ==
    [message |-> channel[Len(channel)], rest |-> SubSeq(channel, 1, Len(channel) - 1)]

\* Receiver::recv_timeout on a non-empty channel: the message placed first
recv(channel) == [message |-> Head(channel), rest |-> Tail(channel)]

\* recv_timeout returns Ok(message); message.encode() returns the text or
\* panics; write_all is entered with the whole text to write
TxSend ==
    /\ tx_pc = "recv"
    /\ outgoing # <<>>
    /\ LET message == recv(outgoing).message
       IN /\ \E header_order \in Orders(OtherTags(message.header)),
                body_order \in Orders(DOMAIN message.body),
                trailer_order \in Orders((DOMAIN message.trailer) \cup {T10}) :
               LET r == fix_message_encode(message, header_order, body_order, trailer_order,
                                           plan.overflow_checks)
               IN /\ tx_rest' = r.text
                  /\ tx_pc' = IF r.panic THEN "panicked" ELSE "write"
          /\ tx_message' = <<message>>
    /\ outgoing' = recv(outgoing).rest
    /\ UNCHANGED <<codec_vars, reasm_vars, flag_vars, handle_vars, main_vars, start_calls, rx2_pc, tx2_pc, orphans,
                   rx_vars, wire_out, written, app_vars>>

\* what a write of the bytes still to write can return: any number of
\* them but none
WriteSizes(rest) == 1..Len(rest)

\* write_all puts bytes on the connection, write after write; it returns
\* when none is left.  A write takes all the bytes, or stops short at one of
\* the byte counts of the run
TxWrite ==
    /\ tx_pc = "write"
    /\ \E n \in WriteSizes(tx_rest) \cap (plan.short_writes \cup {Len(tx_rest)}) :
         /\ wire_out' = wire_out \o SubSeq(tx_rest, 1, n)
         /\ tx_rest' = SubSeq(tx_rest, n + 1, Len(tx_rest))
         /\ IF n = Len(tx_rest)
            THEN tx_pc' = "recheck" /\ written' = written \o tx_message /\ tx_message' = <<>>
            ELSE UNCHANGED <<tx_pc, written, tx_message>>
    /\ UNCHANGED <<codec_vars, reasm_vars, flag_vars, handle_vars, main_vars, start_calls, rx2_pc, tx2_pc, orphans,
                   rx_vars, outgoing, app_vars>>

\* write_all fails, with none or some of the bytes written, and unwrap() panics
TxWriteError ==
    /\ tx_pc = "write"
    /\ tx_pc' = "panicked"
    /\ UNCHANGED <<codec_vars, reasm_vars, flag_vars, handle_vars, main_vars, start_calls, rx2_pc, tx2_pc, orphans,
                   rx_vars, wire_out, outgoing, written, tx_message, tx_rest, app_vars>>

\* recv_timeout returns Err after 1 second with nothing on the channel
TxRecvTimeout ==
    /\ tx_pc = "recv"
    /\ outgoing = <<>>
    /\ tx_pc' = "recheck"
    /\ UNCHANGED <<codec_vars, reasm_vars, flag_vars, handle_vars, main_vars, start_calls, rx2_pc, tx2_pc, orphans,
                   rx_vars, wire_out, outgoing, written, tx_message, tx_rest, app_vars>>

\* if !*is_running_tx.lock().unwrap() { break }
TxRecheck ==
    /\ tx_pc = "recheck"
    /\ CanReadFlag
    /\ tx_pc' = IF ~is_running THEN "exited" ELSE "while"
    /\ UNCHANGED <<codec_vars, reasm_vars, flag_vars, handle_vars, main_vars, start_calls, rx2_pc, tx2_pc, orphans,
                   rx_vars, wire_out, outgoing, written, tx_message, tx_rest, app_vars>>

(* ---- the threads of a later start ---- *)
\* the receive thread of the last start, on a silent connection: it goes
\* round the loop until the check of line 46 or of line 67 sees the flag unset
Rx2Exit ==
    /\ rx2_pc = "running"
    /\ CanReadFlag /\ ~is_running
    /\ rx2_pc' = "exited"
    /\ UNCHANGED <<codec_vars, reasm_vars, flag_vars, handle_vars, main_vars, start_calls,
                   tx2_pc, orphans, rx_vars, tx_vars, app_vars>>

\* the send thread of the last start, on an empty channel: it goes round the
\* loop until the check of line 82 or of line 91 sees the flag unset
Tx2Exit ==
    /\ tx2_pc = "running"
    /\ CanReadFlag /\ ~is_running
    /\ tx2_pc' = "exited"
    /\ UNCHANGED <<codec_vars, reasm_vars, flag_vars, handle_vars, main_vars, start_calls,
                   rx2_pc, orphans, rx_vars, tx_vars, app_vars>>

\* a thread of a later start whose handle was overwritten sees the flag unset
OrphanExit ==
    /\ orphans > 0
    /\ CanReadFlag /\ ~is_running
    /\ orphans' = orphans - 1
    /\ UNCHANGED <<codec_vars, reasm_vars, flag_vars, handle_vars, main_vars, start_calls,
                   rx2_pc, tx2_pc, rx_vars, tx_vars, app_vars>>

(* ---- FixEngine::shutdown (lines 100-123) ---- *)
\* lines 104-107: { let mut is_running = lock(); *is_running = false; }: the
\* guard is dropped where the block ends, so the mutex is free again
ShutdownSignal ==
    /\ sd_pc \in {"idle", "returned"}
    /\ shutdown_calls < MaxShutdownCalls
    /\ lock = "free"
    /\ is_running' = FALSE
    /\ lock' = "free"
    /\ sd_pc' = "take_tx"
    /\ shutdown_calls' = shutdown_calls + 1
    /\ UNCHANGED <<codec_vars, reasm_vars, handle_vars, start_calls, rx2_pc, tx2_pc, orphans, rx_vars, tx_vars, app_vars>>

\* JoinHandle::join returns once the thread has ended, normally or by panic
joinable(thread_pc) == thread_pc \in {"exited", "panicked"}

\* the threads the handles of the engine stand for: those of the last start
HandleRx == IF start_calls > 1 THEN rx2_pc ELSE rx_pc
HandleTx == IF start_calls > 1 THEN tx2_pc ELSE tx_pc

\* a take that leaves the handle of the send thread in the engine
ShutdownTakeTx_keeping ==
    /\ sd_pc = "take_tx"
    /\ sd_pc' = IF tx_thread = "Some" THEN "join_tx" ELSE "take_rx"
    /\ UNCHANGED <<codec_vars, reasm_vars, flag_vars, handle_vars, shutdown_calls, start_calls, rx2_pc, tx2_pc, orphans,
                   rx_vars, tx_vars, app_vars>>

\* line 110: if let Some(tx_thread) = self.tx_thread.take(): the field is
\* None from here on; with a handle taken the caller goes on to join it,
\* with none it goes on to line 116
ShutdownTakeTx ==
    /\ sd_pc = "take_tx"
    /\ tx_thread' = "None"
    /\ sd_pc' = IF tx_thread = "Some" THEN "join_tx" ELSE "take_rx"
    /\ UNCHANGED <<codec_vars, reasm_vars, flag_vars, rx_thread, shutdown_calls, start_calls, rx2_pc, tx2_pc, orphans,
                   rx_vars, tx_vars, app_vars>>

\* line 111: tx_thread.join() returns once the send thread has ended
ShutdownJoinTx ==
    /\ sd_pc = "join_tx"
    /\ joinable(HandleTx)
    /\ sd_pc' = "take_rx"
    /\ UNCHANGED <<codec_vars, reasm_vars, flag_vars, handle_vars, shutdown_calls, start_calls, rx2_pc, tx2_pc, orphans,
                   rx_vars, tx_vars, app_vars>>

\* line 116: if let Some(rx_thread) = self.rx_thread.take()
ShutdownTakeRx ==
    /\ sd_pc = "take_rx"
    /\ rx_thread' = "None"
    /\ sd_pc' = IF rx_thread = "Some" THEN "join_rx" ELSE "returned"
    /\ UNCHANGED <<codec_vars, reasm_vars, flag_vars, tx_thread, shutdown_calls, start_calls, rx2_pc, tx2_pc, orphans,
                   rx_vars, tx_vars, app_vars>>

\* a join that does not wait for the receive thread
ShutdownJoinRx_detaching ==
    /\ sd_pc = "join_rx"
    /\ sd_pc' = "returned"
    /\ UNCHANGED <<codec_vars, reasm_vars, flag_vars, handle_vars, shutdown_calls, start_calls, rx2_pc, tx2_pc, orphans,
                   rx_vars, tx_vars, app_vars>>

\* line 117: rx_thread.join() returns once the receive thread has ended;
\* shutdown() returns
ShutdownJoinRx ==
    /\ sd_pc = "join_rx"
    /\ joinable(HandleRx)
    /\ sd_pc' = "returned"
    /\ UNCHANGED <<codec_vars, reasm_vars, flag_vars, handle_vars, shutdown_calls, start_calls, rx2_pc, tx2_pc, orphans,
                   rx_vars, tx_vars, app_vars>>

\* the steps of a call of shutdown()
shutdown ==
    ShutdownSignal \/ ShutdownTakeTx \/ ShutdownJoinTx \/ ShutdownTakeRx \/ ShutdownJoinRx

(* ---- src/fix_engine.rs: the engine of the file lib.rs does not declare ---- *)
\* FixEngine::new (lines 19-27) builds the same fields as that of engine.rs,
\* and the loops of FixEngine::start (lines 29-78) are those of engine.rs
\* line for line (while, read, Ok(size), extract_complete_message, decode,
\* send; while, recv_timeout, encode, write_all) but for three things: no
\* read timeout is set on the connection, so a read returns only with
\* bytes, with Ok(0) or with an error; the send loop does not look at the
\* flag again after a send or a timeout; and shutdown keeps the guard of the
\* mutex until it returns.  The steps below are those that differ.

\* line 71: recv_timeout returns Err after 1 second with nothing on the
\* channel; the loop goes round to the while of line 70
TxRecvTimeout_fix_engine ==
    /\ tx_pc = "recv"
    /\ outgoing = <<>>
    /\ tx_pc' = "while"
    /\ UNCHANGED <<codec_vars, reasm_vars, flag_vars, handle_vars, main_vars, start_calls, rx2_pc, tx2_pc, orphans,
                   rx_vars, wire_out, outgoing, written, tx_message, tx_rest, app_vars>>

\* line 74: write_all puts bytes on the connection, write after write; when
\* none is left the loop goes round to the while of line 70
TxWrite_fix_engine ==
    /\ tx_pc = "write"
    /\ \E n \in WriteSizes(tx_rest) \cap (plan.short_writes \cup {Len(tx_rest)}) :
         /\ wire_out' = wire_out \o SubSeq(tx_rest, 1, n)
         /\ tx_rest' = SubSeq(tx_rest, n + 1, Len(tx_rest))
         /\ IF n = Len(tx_rest)
            THEN tx_pc' = "while" /\ written' = written \o tx_message /\ tx_message' = <<>>
            ELSE UNCHANGED <<tx_pc, written, tx_message>>
    /\ UNCHANGED <<codec_vars, reasm_vars, flag_vars, handle_vars, main_vars, start_calls, rx2_pc, tx2_pc, orphans,
                   rx_vars, outgoing, app_vars>>

\* lines 44 and 70: lock().unwrap() on a mutex the panic of shutdown() has
\* poisoned returns Err, and the thread panics
LockPoisoned_fix_engine ==
    /\ lock = "poisoned"
    /\ \E thread \in {"rx", "tx"} :
         /\ (IF thread = "rx" THEN rx_pc ELSE tx_pc) = "while"
         /\ rx_pc' = IF thread = "rx" THEN "panicked" ELSE rx_pc
         /\ tx_pc' = IF thread = "tx" THEN "panicked" ELSE tx_pc
    /\ UNCHANGED <<codec_vars, reasm_vars, flag_vars, handle_vars, main_vars, start_calls, rx2_pc, tx2_pc, orphans,
                   buffer, wire_in, incoming, wire_out, outgoing, written, tx_message, tx_rest, app_vars>>

\* lines 81-82: let mut is_running = lock().unwrap(); *is_running = false;
\* the guard lives until the function returns
ShutdownSignal_fix_engine ==
    /\ sd_pc \in {"idle", "returned"}
    /\ shutdown_calls < MaxShutdownCalls
    /\ lock = "free"
    /\ is_running' = FALSE
    /\ lock' = "main"
    /\ sd_pc' = "take_tx"
    /\ shutdown_calls' = shutdown_calls + 1
    /\ UNCHANGED <<codec_vars, reasm_vars, handle_vars, start_calls, rx2_pc, tx2_pc, orphans, rx_vars, tx_vars, app_vars>>

\* line 85: tx_thread.join().unwrap(): join returns once the send thread has
\* ended; if it ended by a panic unwrap panics, and the guard dropped in
\* the unwinding poisons the mutex
ShutdownJoinTx_fix_engine ==
    /\ sd_pc = "join_tx"
    /\ joinable(HandleTx)
    /\ sd_pc' = IF HandleTx = "panicked" THEN "panicked" ELSE "take_rx"
    /\ lock' = IF HandleTx = "panicked" THEN "poisoned" ELSE lock
    /\ UNCHANGED <<codec_vars, reasm_vars, is_running, handle_vars, shutdown_calls, start_calls, rx2_pc, tx2_pc, orphans,
                   rx_vars, tx_vars, app_vars>>

\* line 87: if let Some(rx_thread) = self.rx_thread.take(); with no handle
\* the function returns and the guard is dropped
ShutdownTakeRx_fix_engine ==
    /\ sd_pc = "take_rx"
    /\ rx_thread' = "None"
    /\ sd_pc' = IF rx_thread = "Some" THEN "join_rx" ELSE "returned"
    /\ lock' = IF rx_thread = "Some" THEN lock ELSE "free"
    /\ UNCHANGED <<codec_vars, reasm_vars, is_running, tx_thread, shutdown_calls, start_calls, rx2_pc, tx2_pc, orphans,
                   rx_vars, tx_vars, app_vars>>

\* line 88: rx_thread.join().unwrap(), then the function returns and the
\* guard is dropped; a receive thread that ended by a panic makes unwrap panic
ShutdownJoinRx_fix_engine ==
    /\ sd_pc = "join_rx"
    /\ joinable(HandleRx)
    /\ sd_pc' = IF HandleRx = "panicked" THEN "panicked" ELSE "returned"
    /\ lock' = IF HandleRx = "panicked" THEN "poisoned" ELSE "free"
    /\ UNCHANGED <<codec_vars, reasm_vars, is_running, handle_vars, shutdown_calls, start_calls, rx2_pc, tx2_pc, orphans,
                   rx_vars, tx_vars, app_vars>>

(* ---- the application ---- *)
\* sender.send(message) on the outgoing channel
AppSend ==
    /\ Len(outgoing) + Len(tx_message) + Len(written) < plan.sends
    /\ ~joinable(tx_pc)        \* the send thread still owns the Receiver
    /\ \E m \in OutMessages : outgoing' = Append(outgoing, m)
    /\ placed_before' = IF shutdown_calls = 0 THEN placed_before + 1 ELSE placed_before
    /\ UNCHANGED <<codec_vars, reasm_vars, flag_vars, handle_vars, main_vars, start_calls, rx2_pc, tx2_pc, orphans,
                   rx_vars, tx_pc, wire_out, written, tx_message, tx_rest, sink_open, plan>>

\* the consumer drops the Receiver of the incoming channel
AppDropReceiver ==
    /\ sink_open
    /\ sink_open' = FALSE
    /\ UNCHANGED <<codec_vars, reasm_vars, flag_vars, handle_vars, main_vars, start_calls, rx2_pc, tx2_pc, orphans,
                   rx_vars, tx_vars, placed_before, plan>>


(* ------------------------------------------------------------------ *)
(* Specifications                                                       *)
(* ------------------------------------------------------------------ *)
vars == <<codec_vars, engine_vars, reasm_vars>>

\* FixMessage::decode(&text, clock) of fix_message.rs, the decoder the engine
\* calls, on a text that arrived
Decode_fix_message ==
    /\ pc = "received"
    /\ result' = fix_message_decode(text, ENGINE_CLOCK, plan.overflow_checks)
    /\ pc' = "decoded_fix_message"
    /\ UNCHANGED <<msg, before, sent, text, flipped, body_iter, trailer_iter, trailer_capacity>>
    /\ UNCHANGED <<engine_vars, reasm_vars>>

\* the codec, with an engine constructed and left alone
Init == CodecInit /\ FixEngine_new /\ plan = [stream |-> <<>>, starts |-> 0, sends |-> 0, short_writes |-> {},
               overflow_checks |-> TRUE] /\ wire_in = <<>> /\ ReasmIdle

Next == Encode \/ Corrupt \/ Receive \/ Decode \/ Decode_fix_message

Spec == Init /\ [][Next]_vars

\* the engine, with the codec at rest
EngineInit ==
    /\ CodecIdle /\ FixEngine_new /\ ReasmIdle
    /\ plan \in Scenarios
    /\ wire_in = plan.stream

EngineNext ==
    \/ start
    \/ RxWhile \/ RxReadData \/ RxReadZero \/ RxReadTimeout \/ RxReadError
    \/ TxWhile \/ TxSend \/ TxWrite \/ TxWriteError \/ TxRecvTimeout \/ TxRecheck
    \/ Rx2Exit \/ Tx2Exit \/ OrphanExit
    \/ ShutdownSignal \/ ShutdownTakeTx \/ ShutdownJoinTx \/ ShutdownTakeRx \/ ShutdownJoinRx
    \/ AppSend \/ AppDropReceiver

EngineSpec == EngineInit /\ [][EngineNext]_vars

\* the engine of fix_engine.rs, started at most once
FixEngineInit ==
    /\ CodecIdle /\ FixEngine_new /\ ReasmIdle
    /\ plan \in {scenario \in Scenarios : scenario.starts = 1}
    /\ wire_in = plan.stream

\* no read times out; line 84 (self.tx_thread.take()) is line 110 of engine.rs
FixEngineNext ==
    \/ start
    \/ RxWhile \/ RxReadData \/ RxReadZero \/ RxReadError
    \/ TxWhile \/ TxSend \/ TxWrite_fix_engine \/ TxWriteError \/ TxRecvTimeout_fix_engine
    \/ LockPoisoned_fix_engine
    \/ ShutdownSignal_fix_engine \/ ShutdownTakeTx \/ ShutdownJoinTx_fix_engine
    \/ ShutdownTakeRx_fix_engine \/ ShutdownJoinRx_fix_engine
    \/ AppSend \/ AppDropReceiver

FixEngineSpec == FixEngineInit /\ [][FixEngineNext]_vars

\* the reassembler alone, given a buffer
ReasmInit ==
    /\ CodecIdle /\ FixEngine_new /\ plan = [stream |-> <<>>, starts |-> 0, sends |-> 0, short_writes |-> {},
               overflow_checks |-> TRUE] /\ wire_in = <<>>
    /\ feed \in Buffers
    /\ extracted = NotCalled

ReasmNext == Extract \/ FeedRemainder

ReasmSpec == ReasmInit /\ [][ReasmNext]_vars

\* FixMessage2::encode on a FixMessage2 that holds the header and body fields
\* the FixMessage holds after its own encode; text is the text it returns,
\* sent stays the text FixMessage::encode returned
EncodeOptimised ==
    /\ pc = "encoded"
    /\ Representable(msg)
    /\ text' = FixMessage2_encode(FixMessage2_of(msg, body_iter)).text
    /\ pc' = "optimised"
    /\ UNCHANGED <<msg, before, sent, flipped, result, body_iter, trailer_iter, trailer_capacity>>
    /\ UNCHANGED <<engine_vars, reasm_vars>>

OptimisedNext == Encode \/ EncodeOptimised

\* the two encoders side by side
OptimisedSpec == Init /\ [][OptimisedNext]_vars

(* ------------------------------------------------------------------ *)
(* Codec claims                                                         *)
(* ------------------------------------------------------------------ *)
\* the text went from encode to decode unchanged
RoundTripDone == pc = "decoded" /\ sent # <<>> /\ flipped = 0

\* a decimal numeral read back as a number
RECURSIVE ParseDec(_)
ParseDec(d) ==
    IF d = <<>> THEN 0 ELSE 10 * ParseDec(SubSeq(d, 1, Len(d) - 1)) + (d[Len(d)] - ZERO)

\* the last n bytes of a text
Last(s, n) == SubSeq(s, Len(s) - n + 1, Len(s))

\* the message of the tests: the full header, body {98: 0, 108: 30}
LOGON == [header |-> HEADER_FULL, body |-> Restrict(BODY_ALL, {T98, T108}), trailer |-> EmptyMap]

\* C1: for a message with a non-empty body, the mandatory header fields set and
\* disjoint header and body tags, decode(encode(m)) succeeds and returns
\* exactly m's header (with the computed entry 9) and exactly m's body.
\* Stated on the plainest such messages: the header holds the mandatory
\* fields only (field 9 set by the caller or not), no body tag is a header
\* tag or 10, the trailer starts empty.
C1_RoundTripEqualMaps ==
    ( /\ RoundTripDone
      /\ DOMAIN before.body # {}
      /\ {T8, T35, T49, T56, T34, T52} \subseteq DOMAIN before.header
      /\ DOMAIN before.header \subseteq {T8, T9, T35, T49, T56, T34, T52}
      /\ (DOMAIN msg.header \cup {T10}) \cap (DOMAIN msg.body) = {}
      /\ DOMAIN before.trailer = {} )
    => ( /\ result.ok
         /\ result.msg.header = msg.header
         /\ result.msg.body = msg.body )

\* the body-length span of an encoded text whose trailer is the checksum field
\* alone: what follows the delimiter of field 9 (the second field) up to and
\* including the delimiter before the final field 10=xxx
EndOf8(t) == FindByte(t, SOH, 1)
EndOf9(t) == FindByte(t, SOH, EndOf8(t) + 1)
Field9Value(t) == SubSeq(t, EndOf8(t) + 3, EndOf9(t) - 1)
SpanLength(t) == Len(t) - Len(Field(T10, <<ZERO, ZERO, ZERO>>)) - EndOf9(t)

\* C2: in every text produced by encode the value of field 9 is the number
\* of bytes after the delimiter of field 9 up to and including the delimiter
\* that precedes the checksum field.
C2_BodyLengthIsSpan ==
    (pc = "encoded" /\ DOMAIN msg.trailer = {T10})
    => ParseDec(Field9Value(sent)) = SpanLength(sent)

\* C3: the encoded test message carries the checksum field 10=119, and
\* decoding the text gives back the same header map and the same body map.
C3_Checksum119AndSameMaps ==
    (RoundTripDone /\ before = LOGON)
    => ( /\ Last(sent, 7) = Field(T10, <<49, 49, 57>>)
         /\ result.ok
         /\ result.msg.header = msg.header
         /\ result.msg.body = msg.body )

\* the checksum field of an encoded text whose trailer is the checksum alone
\* is its last 7 bytes, 10=xxx and the delimiter
InChecksumField(t, i) == i > Len(t) - 7

\* C4: changing one byte outside the checksum field of an encoded text makes
\* decode fail with the InvalidChecksum error.
C4_FlipOutsideChecksumRejected ==
    ( /\ pc = "decoded" /\ flipped > 0
      /\ DOMAIN msg.trailer = {T10}
      /\ ~InChecksumField(sent, flipped) )
    => (~result.ok /\ result.err = ERR_CHECKSUM)

\* C5: changing one byte of the checksum field of an encoded text makes
\* decode fail with the InvalidChecksum error.
C5_FlipInsideChecksumRejected ==
    ( /\ pc = "decoded" /\ flipped > 0
      /\ DOMAIN msg.trailer = {T10}
      /\ InChecksumField(sent, flipped) )
    => (~result.ok /\ result.err = ERR_CHECKSUM)

\* the tokens of a text, empty ones included, with their start positions
RECURSIVE TokenStarts(_, _)
TokenStarts(t, from) ==
    IF from > Len(t) THEN {}
    ELSE LET e == FindByte(t, SOH, from)
         IN IF e = 0 THEN {from} ELSE {from} \cup TokenStarts(t, e + 1)

StartsWith10(t, i) ==
    i + 2 <= Len(t) /\ SubSeq(t, i, i + 2) = T10 \o <<EQUALS>>

ChecksumFieldStarts(t) == {i \in TokenStarts(t, 1) : StartsWith10(t, i)}

EndsWithSOH(t) == t # <<>> /\ t[Len(t)] = SOH

\* C6: decode never returns a message for a delimiter-terminated text that
\* holds no tag-10 field.
C6_NoChecksumFieldRejected ==
    (pc = "decoded" /\ EndsWithSOH(text) /\ ChecksumFieldStarts(text) = {})
    => ~result.ok

Min(S) == CHOOSE x \in S : \A y \in S : x <= y

EveryTokenHasEquals(t) ==
    \A i \in TokenStarts(t, 1) :
        LET e == FindByte(t, SOH, i)
        IN e > i /\ FindByte(SubSeq(t, i, e - 1), EQUALS, 1) > 0

HasChecksumField(t) == ChecksumFieldStarts(t) # {}

\* the received checksum value and the recomputation over the exact prefix
ReceivedChecksum(t) ==
    LET i == Min(ChecksumFieldStarts(t))
    IN SubSeq(t, i + 3, FindByte(t, SOH, i) - 1)

ExactPrefixChecksum(t) ==
    Pad3(SumBytes(SubSeq(t, 1, Min(ChecksumFieldStarts(t)) - 1)) % 256)

\* C7: a delimiter-terminated text whose tokens all contain '=' is accepted
\* exactly when its tag-10 value is the 3-digit sum mod 256 of the bytes of
\* the exact text prefix before the 10= field.
C7_AcceptedIffExactPrefixChecksum ==
    (pc = "decoded" /\ EndsWithSOH(text) /\ EveryTokenHasEquals(text))
    => ( result.ok <=> ( /\ HasChecksumField(text)
                         /\ ReceivedChecksum(text) = ExactPrefixChecksum(text) ) )

(* ------------------------------------------------------------------ *)
(* Engine claims                                                        *)
(* ------------------------------------------------------------------ *)
Started == rx_pc # "unspawned" /\ tx_pc # "unspawned"

\* a loop thread that has not ended can take a step
RxCanStep == rx_pc = "read" \/ (rx_pc = "while" /\ CanReadFlag)
TxCanStep == tx_pc \in {"recv", "write"} \/ (tx_pc \in {"while", "recheck"} /\ CanReadFlag)

\* the number of steps a loop needs at most to end once the flag is unset
RxRank == IF rx_pc = "read" THEN 2 ELSE IF rx_pc = "while" THEN 1 ELSE 0
TxRank ==
    IF tx_pc = "recv" THEN 3 ELSE IF tx_pc = "write" THEN 2
    ELSE IF tx_pc \in {"while", "recheck"} THEN 1 ELSE 0

\* the caller of shutdown() is blocked in a join
Waiting == sd_pc \in {"join_tx", "join_rx"}

\* the engine holds no handle
NoHandles == rx_thread = "None" /\ tx_thread = "None"

\* shutdown() has taken the handles of a started engine
Joined == Started /\ NoHandles

\* a loop thread that runs no more: ended, or never spawned
Ended(thread_pc) == joinable(thread_pc) \/ thread_pc = "unspawned"

\* the thread a handle of the engine stands for can take a step
HandleRxCanStep ==
    IF start_calls > 1 THEN rx2_pc = "running" /\ CanReadFlag /\ ~is_running ELSE RxCanStep
HandleTxCanStep ==
    IF start_calls > 1 THEN tx2_pc = "running" /\ CanReadFlag /\ ~is_running ELSE TxCanStep

\* C8: a call of shutdown() on a started engine does not deadlock: the step
\* that unsets the flag leaves the mutex free, so that while the caller waits
\* in a join the flag is unset, the mutex is free and the thread it waits for
\* has ended or can step; every step of a loop thread with the flag unset
\* brings it closer to its end; and the call returns only once the two loop
\* threads the engine held the handles of have ended.
C8_ShutdownCannotBlock ==
    /\ [][(sd_pc \in {"idle", "returned"} /\ sd_pc' = "take_tx")
            => (~is_running' /\ lock' = "free")]_vars
    /\ [](Waiting => (~is_running /\ lock = "free"))
    /\ [](sd_pc = "join_tx" => (joinable(HandleTx) \/ HandleTxCanStep))
    /\ [](sd_pc = "join_rx" => (joinable(HandleRx) \/ HandleRxCanStep))
    /\ []((Waiting /\ Started) => /\ (joinable(rx_pc) \/ RxCanStep)
                                  /\ (joinable(tx_pc) \/ TxCanStep))
    /\ [][(Started /\ ~is_running) =>
            /\ (rx_pc' # rx_pc => RxRank' < RxRank)
            /\ (tx_pc' # tx_pc => TxRank' < TxRank)]_vars
    /\ [][(sd_pc # "returned" /\ sd_pc' = "returned" /\ start_calls > 0)
            => (joinable(HandleRx') /\ joinable(HandleTx'))]_vars

\* a step in which a loop reads from or writes to the connection, or publishes
ConnectionStep ==
    \/ RxReadData \/ RxReadZero \/ RxReadTimeout \/ RxReadError
    \/ TxSend \/ TxWrite \/ TxWriteError

\* C9: after shutdown() has returned, neither the receive loop nor the send
\* loop of the engine reads from or writes to the connection and nothing
\* more is published: while the engine holds no new handles, the two threads
\* it held the handles of have ended, and on an engine on which start() was
\* called once no step after the return reads, writes or publishes.
C9_NoIoAfterShutdown ==
    /\ []((sd_pc = "returned" /\ NoHandles) => (Ended(HandleRx) /\ Ended(HandleTx)))
    /\ [][(sd_pc = "returned" /\ start_calls <= 1) =>
            /\ ~ConnectionStep
            /\ wire_in' = wire_in /\ wire_out' = wire_out /\ incoming' = incoming]_vars

\* shutdown() has returned on an engine started once, with bytes unread on
\* the connection and a message left on the outgoing channel
C9_Witness ==
    /\ sd_pc = "returned" /\ Joined /\ start_calls = 1
    /\ wire_in # <<>> /\ outgoing # <<>>

\* C10: every message put on the outgoing channel before shutdown() was
\* called has been written when the send loop exits without a write error.
C10_PlacedBeforeShutdownWritten ==
    tx_pc = "exited" => Len(written) >= placed_before

(* ------------------------------------------------------------------ *)
(* Reassembler claims                                                   *)
(* ------------------------------------------------------------------ *)
\* C11: a buffer holding two complete back-to-back encoded messages yields
\* the first message exactly and the second message's bytes as remainder.
C11_TwoFramesFirstAndRemainder ==
    \A a, b \in EncodedFrames :
        (extracted.called /\ feed = a \o b)
        => (extracted.some /\ extracted.message = a /\ extracted.remaining = b)

\* the marker "10=" and the positions the claim speaks of
MARKER == T10 \o <<EQUALS>>
MarkerAt(buf, i) == i + 2 <= Len(buf) /\ SubSeq(buf, i, i + 2) = MARKER
MarkerPositions(buf) == {i \in 1..Len(buf) : MarkerAt(buf, i)}
FirstMarker(buf) == Min(MarkerPositions(buf))
DelimitersFrom(buf, i) == {j \in i..Len(buf) : buf[j] = SOH}
MarkerThenDelimiter(buf) ==
    MarkerPositions(buf) # {} /\ DelimitersFrom(buf, FirstMarker(buf)) # {}

\* C13: for a buffer holding the marker and a delimiter after the first
\* marker, the message is the buffer up to and including the first such
\* delimiter, the remainder is what follows, and the two make up the buffer.
C13_MessageThroughFirstDelimiter ==
    (extracted.called /\ MarkerThenDelimiter(feed))
    => LET d == Min(DelimitersFrom(feed, FirstMarker(feed)))
       IN /\ extracted.some
          /\ extracted.message = SubSeq(feed, 1, d)
          /\ extracted.remaining = SubSeq(feed, d + 1, Len(feed))
          /\ extracted.message \o extracted.remaining = feed

\* the bytes a step takes from the connection (none, unless the step is a read)
Consumed == SubSeq(wire_in, 1, Len(wire_in) - Len(wire_in'))

\* C12: when the buffer, with the chunk just read appended, holds no marker
\* or no delimiter after the first marker, nothing is published and the
\* buffer is kept byte for byte, the chunk appended to it.
C12_IncompleteBufferKept ==
    [][(Started /\ ~MarkerThenDelimiter(buffer \o Consumed))
         => (buffer' = buffer \o Consumed /\ incoming' = incoming)]_vars

\* a partial frame waits in the buffer: the marker is there, its delimiter is not
C12_Witness ==
    /\ rx_pc = "while" /\ is_running
    /\ MarkerPositions(buffer) # {}
    /\ ~MarkerThenDelimiter(buffer)
    /\ wire_in # <<>>

\* C14: every complete message in the buffer has been published before the
\* receive loop performs its next read; none waits for further bytes.
C14_NoCompleteMessageWaits ==
    (rx_pc = "read") => ~extract_complete_message(buffer).some

\* the messages of a byte stream in the order of their frames: frame after
\* frame is cut from the front and decoded, a frame that fails to decode
\* gives none
RECURSIVE InArrivalOrder(_)
InArrivalOrder(bytes) ==
    LET found == extract_complete_message(bytes)
        decoded == fix_message_decode(found.message, ENGINE_CLOCK, TRUE)
    IN IF ~found.some THEN <<>>
       ELSE (IF decoded.ok THEN <<decoded.msg>> ELSE <<>>) \o InArrivalOrder(found.remaining)

\* the arrival orders of the streams the peer can send
ArrivalOrders == {InArrivalOrder(stream) : stream \in Streams}

\* C15: messages are published in the order in which their frames arrived,
\* however the byte stream is split into chunks: what was published,
\* followed by the messages of the bytes not yet processed, is the sequence
\* of the stream's messages in arrival order.
C15_PublishedInArrivalOrder ==
    incoming \o InArrivalOrder(buffer \o wire_in) \in ArrivalOrders

\* two different messages were published, the stream having come in pieces
C15_Witness ==
    /\ Len(incoming) = 2 /\ incoming[1] # incoming[2]
    /\ wire_in = <<>> /\ buffer = <<>>

\* the text of an outgoing message of the application (every header field is
\* one of the seven, the body is empty and the trailer holds 10 alone, so
\* encode returns one text)
OutTexts == [m \in OutMessages |-> fix_message_encode(m, <<>>, <<>>, <<T10>>, TRUE).text]
TextOf(message) == OutTexts[message]

RECURSIVE Flatten(_)
Flatten(messages) ==
    IF messages = <<>> THEN <<>> ELSE TextOf(Head(messages)) \o Flatten(Tail(messages))

\* the messages on their way out, oldest first: written, being written,
\* waiting on the channel
OutLine == written \o tx_message \o outgoing

\* C16: the send loop writes the messages in the order in which they were
\* placed on the outgoing channel, each completely before the next: the
\* messages on their way out keep their order and only gain at the end, at
\* most one is being written, and the bytes on the connection are the texts
\* of the written messages one after the other, followed by what is written
\* of the text of the message being written (or cut short by a write error).
C16_WrittenInPlacedOrder ==
    /\ [](Len(tx_message) <= 1)
    /\ [](wire_out \o (IF tx_message = <<>> THEN <<>> ELSE tx_rest)
            = Flatten(written \o tx_message))
    /\ [][\/ OutLine' = OutLine
          \/ \E m \in OutMessages : OutLine' = OutLine \o <<m>>]_vars

\* two different messages were written, the second placed while the first waited
C16_Witness ==
    /\ Len(written) = 2 /\ written[1] # written[2]
    /\ wire_out = Flatten(written)
    /\ tx_pc \in {"recheck", "while", "recv"}

\* C17: a fault in one loop does not stop the other.  A loop that has not
\* ended can step whatever has become of the other loop, and a loop ends
\* only in a step of its own: on seeing the flag unset, or on its own fault
\* (a read error or a closed sink for the receive loop, a write error for
\* the send loop; a panic of the receive loop is a step of its read arm).
C17_FaultStopsOwnLoopOnly ==
    /\ []((Started /\ joinable(tx_pc) /\ ~joinable(rx_pc)) => RxCanStep)
    /\ []((Started /\ joinable(rx_pc) /\ ~joinable(tx_pc)) => TxCanStep)
    /\ [][(rx_pc' # rx_pc /\ joinable(rx_pc'))
            => \/ (~is_running /\ (RxWhile \/ RxReadTimeout))
               \/ RxReadError
               \/ (rx_pc' = "panicked" /\ RxReadData)]_vars
    /\ [][(tx_pc' # tx_pc /\ joinable(tx_pc'))
            => \/ (~is_running /\ (TxWhile \/ TxRecheck))
               \/ TxWriteError]_vars

\* the receive loop has ended on a read error while the engine runs, bytes
\* still unread, and the send loop has written since and goes on
C17_Witness ==
    /\ rx_pc = "exited" /\ is_running /\ wire_in # <<>>
    /\ Len(written) = 2 /\ tx_pc = "recheck"

\* the frame cut from the buffer by the read of this step, and whether its
\* decoding fails
FrameOfStep == extract_complete_message(buffer \o Consumed)
DecodeFails ==
    /\ RxReadData /\ FrameOfStep.some
    /\ ~fix_message_decode(FrameOfStep.message, ENGINE_CLOCK, TRUE).ok

\* the first three parts of C18: nothing is published for the frame, its
\* bytes leave the buffer, the loop goes on
DroppedSilently ==
    /\ incoming' = incoming
    /\ buffer' = FrameOfStep.remaining
    /\ rx_pc' = "while"

\* C18: when the decoding of an extracted frame fails, nothing is published
\* for it, its bytes leave the buffer, the loop goes on, and the messages
\* that follow it are delivered: none of them is left complete in the
\* buffer when the loop goes back to read.
C18_DecodeFailureDropsFrameOnly ==
    [][DecodeFails => (DroppedSilently /\ ~extract_complete_message(buffer').some)]_vars

SomeTokenLacksEquals(t) ==
    \E i \in TokenStarts(t, 1) :
        LET e == FindByte(t, SOH, i)
        IN e > i /\ FindByte(SubSeq(t, i, e - 1), EQUALS, 1) = 0

\* C20: decode fails with the MalformedField error for every
\* delimiter-terminated text in which some non-empty token holds no '=',
\* wherever the token stands; a token that holds '=' is never the cause of
\* that error, however many '=' its value holds.
C20_TokenWithoutEqualsRejected ==
    (pc = "decoded" /\ EndsWithSOH(text))
    => ( (~result.ok /\ result.err = ERR_KEY_VAL) <=> SomeTokenLacksEquals(text) )

(* ------------------------------------------------------------------ *)
\* the error values of decode (message.rs lines 96, 113, 130) and of the
\* decode of fix_message.rs (lines 123, 141, 145)
DecodeErrors == {ERR_NO_SOH, ERR_KEY_VAL, ERR_CHECKSUM, ERR_FORMAT, ERR_MISSING}

\* a value decode can return: a message, or one of its error values
IsDecodeValue(r) ==
    \/ r.ok /\ r.err = ""
    \/ ~r.ok /\ r.err \in DecodeErrors /\ r.msg = FixMessage_new

\* C21: decode returns either a message or an error value for every input
\* text, the empty text and very short texts included; no text makes it
\* panic.
C21_DecodeAlwaysReturns ==
    pc \in {"decoded", "decoded_fix_message"} => IsDecodeValue(result)

(* ------------------------------------------------------------------ *)
\* the seven tags the header holds, in the order encode writes them
HeaderTags == {MANDATORY_ORDER[i] : i \in 1..Len(MANDATORY_ORDER)}

\* C22: after every successful decode the header and body key sets are
\* disjoint: the tags 8, 9, 35, 49, 56, 34 and 52 are stored in header only,
\* tag 10 in trailer only, and every other tag in body only.
C22_HeaderBodyDisjoint ==
    (pc = "decoded" /\ result.ok)
    => /\ (DOMAIN result.msg.header) \cap (DOMAIN result.msg.body) = {}
       /\ (DOMAIN result.msg.header) \subseteq HeaderTags
       /\ (DOMAIN result.msg.trailer) \subseteq {T10}
       /\ (DOMAIN result.msg.body) \cap (HeaderTags \cup {T10}) = {}

(* ------------------------------------------------------------------ *)
\* the fields of a text, in the order they stand in it, without delimiters
FieldsOf(t) == SplitNonEmpty(t, SOH)

\* tag=value
Pair(tag, value) == tag \o <<EQUALS>> \o value

\* the mandatory tags a header holds, in the mandatory order
PresentMandatory(header) ==
    LET In(tag) == tag \in DOMAIN header
    IN SelectSeq(MANDATORY_ORDER, In)

\* C23: in every text produced by encode the mandatory header fields that
\* are present come first and in the order 8, 9, 35, 49, 56, 34, 52, every
\* header field precedes every body field, and every body field precedes the
\* checksum field.
C23_HeaderBodyChecksumOrder ==
    pc = "encoded" =>
        LET fields == FieldsOf(sent)
            h  == PresentMandatory(msg.header)
            nh == Len(h)
            nb == Cardinality(DOMAIN msg.body)
        IN /\ Len(fields) > nh + nb
           /\ \A i \in 1..nh : fields[i] = Pair(h[i], msg.header[h[i]])
           /\ {fields[i] : i \in (nh + 1)..(nh + nb)}
                = {Pair(tag, msg.body[tag]) : tag \in DOMAIN msg.body}
           /\ \E j \in (nh + nb + 1)..Len(fields) :
                  fields[j] = Pair(T10, msg.trailer[T10])

\* a message with all seven header fields and two body fields was encoded
C23_Witness ==
    /\ pc = "encoded"
    /\ HeaderTags \subseteq DOMAIN msg.header
    /\ Cardinality(DOMAIN msg.body) = 2
    /\ Len(FieldsOf(sent)) >= 10

(* ------------------------------------------------------------------ *)
\* C24: every text produced by encode ends with exactly one trailer field,
\* the checksum field 10=xxx, as its last field, and after encode the
\* trailer map of the message holds exactly the one entry 10, whatever
\* entries it held before the call.
C24_ChecksumIsTheOnlyTrailerField ==
    pc = "encoded" =>
        LET fields == FieldsOf(sent)
            nh == Len(PresentMandatory(msg.header))
            nb == Cardinality(DOMAIN msg.body)
        IN /\ Len(fields) = nh + nb + 1
           /\ fields[Len(fields)] = Pair(T10, msg.trailer[T10])
           /\ DOMAIN msg.trailer = {T10}

(* ------------------------------------------------------------------ *)
\* C25: every header entry of the message whose tag is not one of the seven
\* mandatory tags is also written to the encoded text, after the mandatory
\* header fields and before the body fields; no header entry of the message
\* is missing from the text.
C25_OptionalHeaderFieldsWritten ==
    pc = "encoded" =>
        LET fields == FieldsOf(sent)
            nh == Len(PresentMandatory(msg.header))
            no == Cardinality((DOMAIN msg.header) \ HeaderTags)
        IN /\ Len(fields) >= nh + no
           /\ {fields[i] : i \in (nh + 1)..(nh + no)}
                = {Pair(tag, msg.header[tag]) : tag \in (DOMAIN msg.header) \ HeaderTags}
           /\ \A tag \in DOMAIN msg.header :
                  \E i \in 1..Len(fields) : fields[i] = Pair(tag, msg.header[tag])

(* ------------------------------------------------------------------ *)
\* map without the entry tag, and map with each of the values under tag
WithOrWithout(map, tag, values) ==
    {Restrict(map, (DOMAIN map) \ {tag})} \cup {Insert(map, tag, v) : v \in values}

\* the messages that differ from m at most in header 9 and trailer 10
DifferOnlyIn9And10(m) ==
    [header  : WithOrWithout(m.header, T9, {<<55>>, <<57, 57>>}),
     body    : {m.body},
     trailer : WithOrWithout(m.trailer, T10, {<<48, 48, 48>>, <<57, 57, 57>>})]

\* C26: the text produced by encode does not depend on any body-length
\* (header 9) or checksum (trailer 10) value already present in the message:
\* two messages that differ only in those entries encode to the same text
\* (with maps that iterate in the same order and the same clock value), and
\* encoding the same message twice in a row returns the same text both times.
C26_TextIgnoresStale9And10 ==
    /\ [](pc = "encoded" =>
            \A m2 \in DifferOnlyIn9And10(before) :
                encode(m2, msg.header[T52], body_iter, trailer_iter, TRUE).text = sent)
    /\ [][(pc = "encoded" /\ pc' = "encoded") => sent' = sent]_vars

(* ------------------------------------------------------------------ *)
\* the first n fields of a text, each with its delimiter
RECURSIVE FirstFields(_, _)
FirstFields(fields, n) ==
    IF n = 0 THEN <<>>
    ELSE FirstFields(fields, n - 1) \o fields[n] \o <<SOH>>

IsDigit(b) == b \in ZERO..(ZERO + 9)

\* C27: the checksum value written by encode is always exactly three decimal
\* digits and equals (the sum of the byte values of the serialized header
\* followed by the serialized body) mod 256, zero-padded on the left.
C27_ChecksumThreeDigitsOfSum ==
    pc = "encoded" =>
        LET fields == FieldsOf(sent)
            nh == Len(PresentMandatory(msg.header))
            nb == Cardinality(DOMAIN msg.body)
        IN \E j \in (nh + nb + 1)..Len(fields) :
              LET value == SubSeq(fields[j], 4, Len(fields[j]))
              IN /\ SubSeq(fields[j], 1, 3) = T10 \o <<EQUALS>>
                 /\ Len(value) = 3
                 /\ \A i \in 1..3 : IsDigit(value[i])
                 /\ ParseDec(value) = SumBytes(FirstFields(fields, nh + nb)) % 256
                 /\ msg.trailer[T10] = value

\* a checksum below 100 was written, with its padding
C27_Witness ==
    /\ pc = "encoded"
    /\ msg.trailer[T10][1] = ZERO
    /\ Cardinality(DOMAIN msg.body) > 0

(* ------------------------------------------------------------------ *)
\* the value encode must write for tag: the one the caller supplied, or one
\* of the defaults when the message had none
ValuesFor(header, tag, defaults) ==
    IF tag \in DOMAIN header THEN {header[tag]} ELSE defaults

\* C28: encode sets header 8 to "FIX.4.4" only when the message has no
\* entry 8 and sets header 52 from Clock.now() only when the message has no
\* entry 52; values the caller supplied for 8 and 52 are written unchanged.
C28_DefaultsOnlyWhenAbsent ==
    pc = "encoded" =>
        LET fields == FieldsOf(sent)
            nh == Len(PresentMandatory(msg.header))
        IN /\ msg.header[T8] \in ValuesFor(before.header, T8, {FIX44})
           /\ msg.header[T52] \in ValuesFor(before.header, T52, NowValues)
           /\ fields[1] = Pair(T8, msg.header[T8])
           /\ fields[nh] = Pair(T52, msg.header[T52])

\* the caller supplied 8 = FIX.4.2 and no 52; the clock gave the other time
C28_Witness ==
    /\ pc = "encoded"
    /\ T8 \in DOMAIN before.header /\ before.header[T8] = FIX42
    /\ T52 \notin DOMAIN before.header
    /\ msg.header[T8] = FIX42
    /\ msg.header[T52] = OTHER_NOW

(* ------------------------------------------------------------------ *)
HasEquals(f) == FindByte(f, EQUALS, 1) > 0
TagOf(f)     == SubSeq(f, 1, FindByte(f, EQUALS, 1) - 1)
ValueOf(f)   == SubSeq(f, FindByte(f, EQUALS, 1) + 1, Len(f))

\* the position of the first checksum field among the fields of a text, or
\* one past the last field if there is none
FirstChecksumField(fields) ==
    LET at == {i \in 1..Len(fields) : HasEquals(fields[i]) /\ TagOf(fields[i]) = T10}
    IN IF at = {} THEN Len(fields) + 1 ELSE Min(at)

\* some tag stands twice before the checksum field, with different values
SomeTagRepeated(fields) ==
    \E i, j \in 1..(FirstChecksumField(fields) - 1) :
        /\ i < j
        /\ TagOf(fields[i]) = TagOf(fields[j])
        /\ ValueOf(fields[i]) # ValueOf(fields[j])

\* field i is the last one with its tag before the checksum field
LastOfItsTag(fields, i) ==
    \A j \in (i + 1)..(FirstChecksumField(fields) - 1) : TagOf(fields[j]) # TagOf(fields[i])

\* the decoded message holds value under tag, in the map the tag belongs to
Holds(message, tag, value) ==
    LET map == IF tag \in HeaderTags THEN message.header ELSE message.body
    IN tag \in DOMAIN map /\ map[tag] = value

\* C29: when a text contains the same tag more than once before the
\* checksum field, decode does not fail for that reason (it fails only on a
\* checksum value that is not the sum of the fields before it), and the
\* decoded map holds the value of the last occurrence of that tag.
C29_LastOccurrenceWins ==
    LET fields == FieldsOf(text)
        k == FirstChecksumField(fields)
    IN ( /\ pc = "decoded" /\ EndsWithSOH(text)
         /\ \A i \in 1..(k - 1) : HasEquals(fields[i])
         /\ SomeTagRepeated(fields) )
       => /\ ~result.ok =>
               /\ result.err = ERR_CHECKSUM
               /\ k <= Len(fields)
               /\ ValueOf(fields[k]) # calculate_checksum(FirstFields(fields, k - 1), TRUE)
          /\ result.ok =>
               \A i \in 1..(k - 1) :
                   LastOfItsTag(fields, i)
                   => Holds(result.msg, TagOf(fields[i]), ValueOf(fields[i]))

\* a text with a repeated tag and a correct checksum field was decoded
C29_Witness ==
    /\ pc = "decoded"
    /\ result.ok
    /\ SomeTagRepeated(FieldsOf(text))
    /\ HasChecksumField(text)
    /\ T8 \in DOMAIN result.msg.header

(* ------------------------------------------------------------------ *)
\* the byte length of the serialized entries of a header other than 8 and 9
SerializedWithout89(header) ==
    Len(WriteFields(header, CHOOSE o \in Orders((DOMAIN header) \ {T8, T9}) : TRUE))

\* what the receive loop of the peer engine publishes when the text arrives
\* in one read on an empty buffer
PeerReceives(t) == on_chunk(<<>>, t, TRUE, TRUE)

\* the three maps of a message
MapsOf(message) ==
    [header |-> message.header, body |-> message.body, trailer |-> message.trailer]

\* C30: a message with an empty body is legal: encode produces a text
\* whose body-length value equals the byte length of the serialized header
\* fields other than 8 and 9, decode accepts that text, and the message
\* sent by one engine is received (decoded and published) by the peer
\* engine.
C30_EmptyBodyIsLegal ==
    (pc = "encoded" /\ DOMAIN msg.body = {})
    => /\ FieldsOf(sent)[2] = Pair(T9, to_string(SerializedWithout89(msg.header)))
       /\ decode(sent, TRUE).ok
       /\ Len(PeerReceives(sent).publish) = 1
       /\ MapsOf(PeerReceives(sent).publish[1]) = decode(sent, TRUE).msg

(* ------------------------------------------------------------------ *)
(* Engine claims: the life cycle                                        *)
(* ------------------------------------------------------------------ *)
\* C31: the engine is Running from construction until shutdown() is called;
\* the flag is changed only by shutdown() and only from running to
\* not-running (neither start() nor a loop sets it back), and shutdown()
\* returns only after both loop threads of the engine, those it held the
\* handles of, have ended.
C31_FlagFallsOnceInShutdown ==
    /\ [](shutdown_calls = 0 => is_running)
    /\ [](shutdown_calls > 0 => ~is_running)
    /\ [][is_running' # is_running => (ShutdownSignal /\ is_running /\ ~is_running')]_vars
    /\ [][(sd_pc # "returned" /\ sd_pc' = "returned")
            => (Ended(HandleRx') /\ Ended(HandleTx'))]_vars
    /\ []((sd_pc = "returned" /\ start_calls = 1 /\ NoHandles)
            => (joinable(rx_pc) /\ joinable(tx_pc)))

\* shutdown() has returned twice on an engine started once, whose threads
\* ended
C31_Witness ==
    /\ Started /\ start_calls = 1 /\ ~is_running
    /\ sd_pc = "returned" /\ shutdown_calls = 2
    /\ joinable(rx_pc) /\ joinable(tx_pc)

\* the caller of shutdown() can take its next step (the steps of
\* fix_engine.rs are enabled in the same states)
ShutdownCanStep ==
    ENABLED (ShutdownTakeTx \/ ShutdownJoinTx \/ ShutdownTakeRx \/ ShutdownJoinRx)

\* the steps left to the caller of shutdown() before it returns
SdRank ==
    IF sd_pc = "take_tx" THEN 4 ELSE IF sd_pc = "join_tx" THEN 3
    ELSE IF sd_pc = "take_rx" THEN 2 ELSE IF sd_pc = "join_rx" THEN 1 ELSE 0

\* the threads of later starts that still run; each needs one step to end
\* once the flag is unset
LaterRank == Running(rx2_pc) + Running(tx2_pc) + orphans
LaterCanStep == LaterRank > 0 /\ CanReadFlag

\* the steps left in all once the flag is unset
Remaining == RxRank + TxRank + LaterRank + SdRank

\* C32: once shutdown() has set the flag, both loops exit and shutdown()
\* returns, provided every read in flight returns and every write in flight
\* completes, also while bytes keep arriving and messages keep being placed
\* on the outgoing channel; each loop does at most one more blocking
\* operation.  As safety: with the flag unset no loop starts a read or a recv
\* (the one in flight is the last), while something is left to do one of
\* the threads can step (on a poisoned mutex by the panic of its next
\* lock), the caller can pass its joins once the loops have ended, and every
\* step of theirs within a call leaves less to do.
C32_ShutdownCompletes ==
    /\ [][~is_running =>
            /\ (rx_pc' = "read" => rx_pc = "read")
            /\ (tx_pc' = "recv" => tx_pc = "recv")]_vars
    /\ []((Started /\ ~is_running /\ Remaining > 0)
            => (RxCanStep \/ TxCanStep \/ LaterCanStep \/ ShutdownCanStep \/ lock = "poisoned"))
    /\ []((Started /\ ~is_running /\ sd_pc \in {"take_tx", "join_tx", "take_rx", "join_rx"}
              /\ joinable(rx_pc) /\ joinable(tx_pc) /\ LaterRank = 0)
            => ShutdownCanStep)
    /\ [][(Started /\ ~is_running /\ sd_pc' # "take_tx" /\ ~start
              /\ <<rx_pc, tx_pc, sd_pc, rx2_pc, tx2_pc, orphans>>'
                   # <<rx_pc, tx_pc, sd_pc, rx2_pc, tx2_pc, orphans>>)
            => Remaining' < Remaining]_vars

\* C33: while the flag is set the receive loop keeps running through read
\* timeouts, zero-length reads, decode failures and the closing of the
\* incoming sink by the consumer; it ends only when it sees the flag unset
\* or when a read fails with an error other than a timeout.
C33_ReceiveLoopEndsOnFlagOrReadError ==
    [][(rx_pc' # rx_pc /\ joinable(rx_pc'))
         => \/ (~is_running /\ (RxWhile \/ RxReadTimeout))
            \/ RxReadError]_vars

\* C34: at every point of the receive loop the frames extracted so far, in
\* the order of their extraction, followed by the accumulation buffer are
\* the chunks read so far: no received byte is lost, duplicated or
\* reordered, whatever the sizes and contents of the chunks.  Step by step:
\* a read that extracts a frame leaves the frame followed by the new buffer
\* equal to the old buffer followed by the chunk, and a read that extracts
\* none leaves the old buffer followed by the chunk.
C34_FramesAndBufferAreTheChunks ==
    [][RxReadData =>
         /\ ~FrameOfStep.panic
         /\ (IF FrameOfStep.some /\ rx_pc' # "panicked" THEN FrameOfStep.message ELSE <<>>)
              \o buffer' = buffer \o Consumed]_vars

\* C35: for every text produced by encode in which no field value holds
\* the text "10=", the reassembler given exactly that text returns the
\* whole text as the complete message and an empty remainder, whatever tags
\* the message uses.
C35_EncodedTextIsOneFrame ==
    (extracted.called /\ feed \in EncodedFrames)
    => /\ extracted.some
       /\ extracted.message = feed
       /\ extracted.remaining = <<>>

\* the engine holds no join handle
\* C36: shutdown() called a second time, or on an engine that was never
\* started, returns without blocking and without touching the connection;
\* each join handle is taken and joined at most once.  An engine that was
\* never started holds no handle and its caller is never in a join; a join
\* is entered only by the take that found the handle and left None in its
\* place; a call leaves no handle behind when it returns and no step but
\* start() stores one, so that a call with no start() since the last finds
\* none; the steps of a call other than the joins can always be taken; and
\* no step of shutdown() reads from or writes to the connection or publishes.
C36_RepeatedShutdownReturnsAtOnce ==
    /\ [](start_calls = 0 => (NoHandles /\ ~Waiting))
    /\ [][(sd_pc # "join_tx" /\ sd_pc' = "join_tx")
            => (tx_thread = "Some" /\ tx_thread' = "None")]_vars
    /\ [][(sd_pc # "join_rx" /\ sd_pc' = "join_rx")
            => (rx_thread = "Some" /\ rx_thread' = "None")]_vars
    /\ [](sd_pc = "take_tx" => ENABLED ShutdownTakeTx)
    /\ [](sd_pc = "take_rx" => ENABLED ShutdownTakeRx)
    /\ [][(sd_pc # "returned" /\ sd_pc' = "returned") => NoHandles']_vars
    /\ [][(tx_thread = "None" => tx_thread' = "None" \/ start)
          /\ (rx_thread = "None" => rx_thread' = "None" \/ start)]_vars
    /\ [][shutdown => (wire_in' = wire_in /\ wire_out' = wire_out /\ incoming' = incoming)]_vars

\* a second call of shutdown() on an engine that was started once, before
\* the first call, and has written a message, has found no handle of the
\* send thread and is about to look for that of the receive thread, with
\* bytes unread on the connection
C36_Witness ==
    /\ Started /\ start_calls = 1 /\ written # <<>> /\ NoHandles
    /\ shutdown_calls = 2 /\ sd_pc = "take_rx"
    /\ wire_in # <<>>

\* the value of the last field of text t that has the given tag
LastValue(t, tag) ==
    LET fields == FieldsOf(t)
        at == {i \in 1..Len(fields) : HasEquals(fields[i]) /\ TagOf(fields[i]) = tag}
    IN ValueOf(fields[CHOOSE i \in at : \A j \in at : j <= i])

\* C37: for the same set of fields, FixMessage2::encode writes the same
\* body-length value and the same 3-digit zero-padded checksum field that
\* FixMessage::encode writes.
C37_SameLengthAndChecksumAsFixMessage ==
    pc = "optimised" =>
        /\ LastValue(text, T9) = LastValue(sent, T9)
        /\ LastValue(text, T10) = LastValue(sent, T10)
        /\ Len(LastValue(text, T10)) = 3

====
